---- MODULE Spec2Model ----
(***************************************************************************)
(* paulzhng/aoc-2023 as state machines. Day 8: the network walk            *)
(* (Network::steps) and the two puzzle parts of calculate_result. Days 2,  *)
(* 3, 4, 5, 6, 7 and 9: calculate_result of each day, one at a time.       *)
(***************************************************************************)
EXTENDS Integers, Sequences, FiniteSets, TLC

VARIABLES
    line,          \* the instruction line of the input text, one character per element
    network,       \* Network.elements: ElementId -> Element
    part,          \* PuzzlePart handed to calculate_result ("Direct": Network::steps called on its own)
    instructions,  \* Vec<Instruction> produced by parse_input
    starts,        \* start_positions, in the iteration order of the HashMap
    targets,       \* the target set handed to Network::steps
    idx,           \* position of the fold over start_positions
    acc,           \* accumulator of the fold
    start,         \* the start argument of the running call of Network::steps
    cur,           \* fold_while state: current element
    steps,         \* fold_while state: step counter
    pos,           \* position of the cycle() iterator in instructions
    pc,            \* where the computation stands
    result,        \* the value calculate_result returns
    walks,         \* the fold_while state of each of several walks running side by side
    d7input,       \* day 7: the input lines, each the card characters and the bid
    d7part,        \* day 7: PuzzlePart
    d7hands,       \* day 7: the Vec<Hand> of parse_input
    d7cmp,         \* day 7: Ordering of Hand::cmp for each pair of hands
    d7pc,          \* day 7: where the computation stands
    d5almanac,     \* day 5: the Almanac of Almanac::from_str
    d5part,        \* day 5: PuzzlePart
    d5queue,       \* day 5: the seed numbers the iterator has yet to yield
    d5seed,        \* day 5: seed_number of the running convert_seed_to_location
    d5cat,         \* day 5: category of its loop
    d5num,         \* day 5: number of its loop
    d5ret,         \* day 5: what convert_seed_to_location returned
    d5min,         \* day 5: the minimum min() holds so far
    d5result,      \* day 5: the value calculate_result returns
    d5pc,          \* day 5: where the computation stands
    d4cards,       \* day 4: the Vec<Card> of parse_input
    d4part,        \* day 4: PuzzlePart
    d4i,           \* day 4: how many cards the loop over the cards has taken
    d4amount,      \* day 4: card_amount, card id -> number of instances
    d4sum,         \* day 4: the points summed so far in part one
    d4result,      \* day 4: the value calculate_result returns
    d4pc,          \* day 4: where the computation stands
    d9histories,   \* day 9: the Vec<History> of parse_input
    d9part,        \* day 9: PuzzlePart
    d9i,           \* day 9: how many histories the iterator has yielded
    d9row,         \* day 9: row of calculate_diff
    d9rows,        \* day 9: rows of calculate_diff
    d9value,       \* day 9: what the extrapolation of the history returned
    d9sum,         \* day 9: the sum of the values so far
    d9result,      \* day 9: the value calculate_result returns
    d9pc,          \* day 9: where the computation stands
    d2games,       \* day 2: the Vec<Game> of parse_input
    d2part,        \* day 2: PuzzlePart
    d2i,           \* day 2: how many games the iterator has yielded
    d2sum,         \* day 2: the sum so far
    d2result,      \* day 2: the value calculate_result returns
    d2pc,          \* day 2: where the computation stands
    d6lines,       \* day 6: the two lines of the input, one character per element
    d6part,        \* day 6: PuzzlePart
    d6races,       \* day 6: the races the parser of the part made
    d6i,           \* day 6: how many races the iterator has yielded
    d6acc,         \* day 6: the accumulator of reduce
    d6result,      \* day 6: the value calculate_result returns
    d6pc,          \* day 6: where the computation stands
    d3lines,       \* day 3: the lines of the input, one character per element
    d3part,        \* day 3: PuzzlePart
    d3y,           \* day 3: the line the parser is on, counted from 0
    d3x,           \* day 3: the column the fold over the line is on, counted from 0
    d3state,       \* day 3: ParseState of the fold
    d3parsed,      \* day 3: the objects of the line so far
    d3objects,     \* day 3: Schematic.objects
    d3i,           \* day 3: how many numbers the iterator has yielded
    d3adjacent,    \* day 3: adjacent_symbols of the number yielded last
    d3sum,         \* day 3: the sum so far
    d3result,      \* day 3: the value calculate_result returns
    d3pc           \* day 3: where the computation stands

\* the state of day 8's calculate_result
day8 == <<line, network, part, instructions, starts, targets, idx, acc,
          start, cur, steps, pos, pc, result>>

\* the state of day 7's calculate_result
day7 == <<d7input, d7part, d7hands, d7cmp, d7pc>>

\* the state of day 5's calculate_result
day5 == <<d5almanac, d5part, d5queue, d5seed, d5cat, d5num, d5ret, d5min, d5result, d5pc>>

\* the state of day 4's calculate_result
day4 == <<d4cards, d4part, d4i, d4amount, d4sum, d4result, d4pc>>

\* the state of day 9's calculate_result
day9 == <<d9histories, d9part, d9i, d9row, d9rows, d9value, d9sum, d9result, d9pc>>

\* the state of day 2's calculate_result
day2 == <<d2games, d2part, d2i, d2sum, d2result, d2pc>>

\* the state of day 6's calculate_result
day6 == <<d6lines, d6part, d6races, d6i, d6acc, d6result, d6pc>>

\* the state of day 3's calculate_result
day3 == <<d3lines, d3part, d3y, d3x, d3state, d3parsed, d3objects, d3i, d3adjacent,
          d3sum, d3result, d3pc>>

\* the state of the other days
days == <<day7, day5, day4, day9, day2, day6, day3>>

others == <<walks, days>>

vars == <<day8, others>>

---------------------------------------------------------------------------
(* Bounds *)

MaxInstrLen == 2
MaxSteps == 7

---------------------------------------------------------------------------
(* Element ids, elements, networks *)

AAA == <<"A", "A", "A">>
BBA == <<"B", "B", "A">>
ZZZ == <<"Z", "Z", "Z">>

START == AAA
END == ZZZ

\* The ids the generated networks are built from.
IdUniverse == {AAA, BBA, ZZZ}

\* Option::None of take_step
None == <<>>

Element(i, l, r) == [id |-> i, left |-> l, right |-> r]

\* Network::from_str collects (element.id, element) pairs into the map.
NetworkOf(elems) == [k \in {e.id : e \in elems} |-> CHOOSE e \in elems : e.id = k]

GeneratedNetworks ==
    UNION { { [k \in keys |-> Element(k, f[k][1], f[k][2])] :
                f \in [keys -> IdUniverse \X IdUniverse] } :
            keys \in SUBSET IdUniverse }

BBB == <<"B", "B", "B">>
CCC == <<"C", "C", "C">>
DDD == <<"D", "D", "D">>
EEE == <<"E", "E", "E">>
GGG == <<"G", "G", "G">>
XXX == <<"X", "X", "X">>
A11 == <<"1", "1", "A">>
B11 == <<"1", "1", "B">>
Z11 == <<"1", "1", "Z">>
A22 == <<"2", "2", "A">>
B22 == <<"2", "2", "B">>
C22 == <<"2", "2", "C">>
Z22 == <<"2", "2", "Z">>

EXAMPLE_DIRECT_PART_1 ==
    [line |-> <<"R", "L">>,
     network |-> NetworkOf({Element(AAA, BBB, CCC), Element(BBB, DDD, EEE),
                            Element(CCC, ZZZ, GGG), Element(DDD, DDD, DDD),
                            Element(EEE, EEE, EEE), Element(GGG, GGG, GGG),
                            Element(ZZZ, ZZZ, ZZZ)})]

EXAMPLE_CIRCULAR_PART_1 ==
    [line |-> <<"L", "L", "R">>,
     network |-> NetworkOf({Element(AAA, BBB, BBB), Element(BBB, AAA, ZZZ),
                            Element(ZZZ, ZZZ, ZZZ)})]

EXAMPLE_PART_2 ==
    [line |-> <<"L", "R">>,
     network |-> NetworkOf({Element(A11, B11, XXX), Element(B11, XXX, Z11),
                            Element(Z11, B11, XXX), Element(A22, B22, XXX),
                            Element(B22, C22, C22), Element(C22, Z22, Z22),
                            Element(Z22, B22, B22), Element(XXX, XXX, XXX)})]

Examples == {EXAMPLE_DIRECT_PART_1, EXAMPLE_CIRCULAR_PART_1, EXAMPLE_PART_2}

---------------------------------------------------------------------------
(* Instructions *)

InstrChars == {"L", "R", "X"}

SeqsUpTo(S, n) == UNION { [1..k -> S] : k \in 0..n }

Lines == SeqsUpTo(InstrChars, MaxInstrLen)

\* Instruction::try_from
TryFromChar(c) ==
    CASE c = "L" -> "Left"
      [] c = "R" -> "Right"
      [] OTHER -> "Err"

\* parse_input: the instruction line, collected into eyre::Result<Vec<_>>
ParseInstructions(l) ==
    IF \E i \in 1..Len(l) : TryFromChar(l[i]) = "Err"
    THEN [ok |-> FALSE, value |-> <<>>]
    ELSE [ok |-> TRUE, value |-> [i \in 1..Len(l) |-> TryFromChar(l[i])]]

InstructionSeqs == SeqsUpTo({"Left", "Right"}, MaxInstrLen)

---------------------------------------------------------------------------
(* Network::take_step *)

take_step_Swapped(net, c, instruction) ==
    IF c \in DOMAIN net
    THEN IF instruction = "Left" THEN net[c].right ELSE net[c].left
    ELSE None

take_step_Checked(net, c, instruction) ==
    LET next == IF instruction = "Left" THEN net[c].left ELSE net[c].right IN
    IF c \in DOMAIN net /\ next \in DOMAIN net THEN next ELSE None

take_step_Lenient(net, c, instruction) ==
    IF c \in DOMAIN net
    THEN IF instruction = "Left" THEN net[c].left ELSE net[c].right
    ELSE c

take_step(net, c, instruction) ==
    IF c \in DOMAIN net
    THEN IF instruction = "Left" THEN net[c].left ELSE net[c].right
    ELSE None

\* target.contains(&next)
Contains(target, next) == next \in target

Count_Same(n) == n

\* the counter of fold_while after one more instruction
Count(n) == n + 1

CycleNext_WrapEarly(p, ins) == IF p >= Len(ins) - 1 THEN 1 ELSE p + 1

CycleNext_NoWrap(p, ins) == IF p = Len(ins) THEN p ELSE p + 1

\* iter().cycle(): after the last instruction the iterator starts over
CycleNext(p, ins) == IF p = Len(ins) THEN 1 ELSE p + 1

---------------------------------------------------------------------------
(* num::integer::lcm *)

RECURSIVE gcd(_, _)
gcd(a, b) == IF b = 0 THEN a ELSE gcd(b, a % b)

lcm_Product(a, b) == a * b

lcm_Max(a, b) == IF a >= b THEN a ELSE b

lcm_Last(a, b) == b

lcm(a, b) == IF a = 0 /\ b = 0 THEN 0 ELSE a * (b \div gcd(a, b))

FoldSeed_Zero == 1 - 1

\* the seed of the fold over start_positions
FoldSeed == 1

ends_with(id, c) == id[3] = c

\* the ids of the elements of the network that end with 'A'
StartPositions(net) == {net[k].id : k \in {j \in DOMAIN net : ends_with(net[j].id, "A")}}

EndPositions_Referenced(net) ==
    {id \in DOMAIN net \cup {net[k].left : k \in DOMAIN net}
                      \cup {net[k].right : k \in DOMAIN net} : ends_with(id, "Z")}

\* the ids of the elements of the network that end with 'Z'
EndPositions(net) == {net[k].id : k \in {j \in DOMAIN net : ends_with(net[j].id, "Z")}}

\* every order in which a set may be iterated
Orders(S) == { s \in [1..Cardinality(S) -> S] : \A i, j \in 1..Cardinality(S) : s[i] = s[j] => i = j }

---------------------------------------------------------------------------
(* Initial states *)

\* no walks run side by side
WalksIdle == walks = <<>>

\* day 7 does not run
Day7Idle ==
    /\ d7input = <<>>
    /\ d7part = "None"
    /\ d7hands = <<>>
    /\ d7cmp = <<>>
    /\ d7pc = "off"

\* day 5 does not run
Day5Idle ==
    /\ d5almanac = <<>>
    /\ d5part = "None"
    /\ d5queue = <<>>
    /\ d5seed = 0
    /\ d5cat = "None"
    /\ d5num = 0
    /\ d5ret = <<>>
    /\ d5min = <<>>
    /\ d5result = 0
    /\ d5pc = "off"

\* day 4 does not run
Day4Idle ==
    /\ d4cards = <<>>
    /\ d4part = "None"
    /\ d4i = 0
    /\ d4amount = <<>>
    /\ d4sum = 0
    /\ d4result = 0
    /\ d4pc = "off"

\* day 9 does not run
Day9Idle ==
    /\ d9histories = <<>>
    /\ d9part = "None"
    /\ d9i = 0
    /\ d9row = <<>>
    /\ d9rows = <<>>
    /\ d9value = 0
    /\ d9sum = 0
    /\ d9result = 0
    /\ d9pc = "off"

\* day 2 does not run
Day2Idle ==
    /\ d2games = <<>>
    /\ d2part = "None"
    /\ d2i = 0
    /\ d2sum = 0
    /\ d2result = 0
    /\ d2pc = "off"

\* day 6 does not run
Day6Idle ==
    /\ d6lines = <<>>
    /\ d6part = "None"
    /\ d6races = <<>>
    /\ d6i = 0
    /\ d6acc = <<>>
    /\ d6result = 0
    /\ d6pc = "off"

\* day 3 does not run
Day3Idle ==
    /\ d3lines = <<>>
    /\ d3part = "None"
    /\ d3y = 0
    /\ d3x = 0
    /\ d3state = <<>>
    /\ d3parsed = <<>>
    /\ d3objects = <<>>
    /\ d3i = 0
    /\ d3adjacent = <<>>
    /\ d3sum = 0
    /\ d3result = 0
    /\ d3pc = "off"

\* no other day runs
DaysIdle == Day7Idle /\ Day5Idle /\ Day4Idle /\ Day9Idle /\ Day2Idle /\ Day6Idle /\ Day3Idle

\* no part of day 8 runs
Day8Idle ==
    /\ line = <<>>
    /\ network = <<>>
    /\ part = "None"
    /\ pc = "off"
    /\ instructions = <<>>
    /\ starts = <<>>
    /\ targets = {}
    /\ idx = 0
    /\ acc = 0
    /\ start = None
    /\ cur = None
    /\ steps = 0
    /\ pos = 0
    /\ result = 0
    /\ WalksIdle

\* every day but day n is idle
OtherDaysIdle(n) ==
    /\ IF n = 8 THEN TRUE ELSE Day8Idle
    /\ IF n = 7 THEN TRUE ELSE Day7Idle
    /\ IF n = 5 THEN TRUE ELSE Day5Idle
    /\ IF n = 4 THEN TRUE ELSE Day4Idle
    /\ IF n = 9 THEN TRUE ELSE Day9Idle
    /\ IF n = 2 THEN TRUE ELSE Day2Idle
    /\ IF n = 6 THEN TRUE ELSE Day6Idle
    /\ IF n = 3 THEN TRUE ELSE Day3Idle

\* a step of day n leaves the other days alone
OtherDaysUnchanged(n) ==
    /\ IF n = 8 THEN TRUE ELSE UNCHANGED <<day8, walks>>
    /\ IF n = 7 THEN TRUE ELSE UNCHANGED day7
    /\ IF n = 5 THEN TRUE ELSE UNCHANGED day5
    /\ IF n = 4 THEN TRUE ELSE UNCHANGED day4
    /\ IF n = 9 THEN TRUE ELSE UNCHANGED day9
    /\ IF n = 2 THEN TRUE ELSE UNCHANGED day2
    /\ IF n = 6 THEN TRUE ELSE UNCHANGED day6
    /\ IF n = 3 THEN TRUE ELSE UNCHANGED day3

\* nothing but day 8's calculate_result runs
OthersIdle == WalksIdle /\ DaysIdle

Idle ==
    /\ OthersIdle
    /\ instructions = <<>>
    /\ starts = <<>>
    /\ targets = {}
    /\ idx = 0
    /\ acc = 0
    /\ start = None
    /\ cur = None
    /\ steps = 0
    /\ pos = 0
    /\ result = 0

\* calculate_result(input, puzzle_part) is called
Init ==
    /\ \/ line \in Lines /\ network \in GeneratedNetworks
       \/ \E ex \in Examples : line = ex.line /\ network = ex.network
    /\ part \in {"One", "Two"}
    /\ pc = "input"
    /\ Idle

\* the arguments the examples' walks are called with
ExampleStarts == {AAA, A11, A22}
ExampleTargets == {{ZZZ}, {Z11, Z22}}

\* network.steps(start, target, instructions) is called. Network::steps never
\* looks into an id, and the generated networks and target sets are closed
\* under renaming the ids, so one start stands for each of them.
WalkInit ==
    /\ line = <<>>
    /\ part = "Direct"
    /\ \/ /\ instructions \in InstructionSeqs
          /\ network \in GeneratedNetworks
          /\ start = AAA
          /\ targets \in SUBSET IdUniverse
       \/ /\ \E ex \in Examples :
                instructions = ParseInstructions(ex.line).value /\ network = ex.network
          /\ start \in ExampleStarts
          /\ targets \in ExampleTargets
    /\ starts = <<>>
    /\ idx = 0
    /\ acc = 0
    /\ cur = start
    /\ steps = 0
    /\ pos = 1
    /\ pc = "walk"
    /\ result = 0
    /\ OthersIdle

---------------------------------------------------------------------------
(* calculate_result *)

ParseInput ==
    /\ pc = "input"
    /\ LET parsed == ParseInstructions(line) IN
         IF parsed.ok
         THEN /\ pc' = "parsed"
              /\ instructions' = parsed.value
         ELSE /\ pc' = "error"
              /\ UNCHANGED instructions
    /\ UNCHANGED others
    /\ UNCHANGED <<line, network, part, starts, targets, idx, acc, start, cur,
                   steps, pos, result>>

\* PuzzlePart::One: network.steps(START, {END}, instructions) is entered
SelectOne ==
    /\ pc = "parsed"
    /\ part = "One"
    /\ starts' = <<START>>
    /\ targets' = {END}
    /\ idx' = 1
    /\ start' = START
    /\ cur' = START
    /\ steps' = 0
    /\ pos' = 1
    /\ pc' = "walk"
    /\ UNCHANGED others
    /\ UNCHANGED <<line, network, part, instructions, acc, result>>

\* PuzzlePart::Two: start_positions and end_positions are collected
SelectTwo ==
    /\ pc = "parsed"
    /\ part = "Two"
    /\ starts' \in Orders(StartPositions(network))
    /\ targets' = EndPositions(network)
    /\ idx' = 1
    /\ acc' = FoldSeed
    /\ pc' = "fold"
    /\ UNCHANGED others
    /\ UNCHANGED <<line, network, part, instructions, start, cur, steps, pos, result>>

\* the fold takes the next start position and enters network.steps
BeginWalk ==
    /\ pc = "fold"
    /\ idx <= Len(starts)
    /\ start' = starts[idx]
    /\ cur' = starts[idx]
    /\ steps' = 0
    /\ pos' = 1
    /\ pc' = "walk"
    /\ UNCHANGED others
    /\ UNCHANGED <<line, network, part, instructions, starts, targets, idx, acc, result>>

---------------------------------------------------------------------------
(* Network::steps: one iteration of fold_while per action *)

\* Some(next) => Continue((steps + 1, next))
Continue ==
    /\ pc = "walk"
    /\ Len(instructions) > 0
    /\ steps < MaxSteps
    /\ LET next == take_step(network, cur, instructions[pos]) IN
         /\ next # None
         /\ ~Contains(targets, next)
         /\ cur' = next
    /\ steps' = Count(steps)
    /\ pos' = CycleNext(pos, instructions)
    /\ UNCHANGED others
    /\ UNCHANGED <<line, network, part, instructions, starts, targets, idx, acc,
                   start, pc, result>>

\* Some(next) if target.contains(&next) => Done((steps + 1, next))
Done ==
    /\ pc = "walk"
    /\ Len(instructions) > 0
    /\ steps < MaxSteps
    /\ LET next == take_step(network, cur, instructions[pos]) IN
         /\ next # None
         /\ Contains(targets, next)
         /\ cur' = next
    /\ steps' = Count(steps)
    /\ pos' = CycleNext(pos, instructions)
    /\ pc' = "walked"
    /\ UNCHANGED others
    /\ UNCHANGED <<line, network, part, instructions, starts, targets, idx, acc,
                   start, result>>

\* None => panic!("Unknown node: {cur:?}")
UnknownNode ==
    /\ pc = "walk"
    /\ Len(instructions) > 0
    /\ steps < MaxSteps
    /\ take_step(network, cur, instructions[pos]) = None
    /\ pc' = "panic"
    /\ UNCHANGED others
    /\ UNCHANGED <<line, network, part, instructions, starts, targets, idx, acc,
                   start, cur, steps, pos, result>>

\* cycle() over an empty slice yields nothing: fold_while ends with its seed
Exhausted ==
    /\ pc = "walk"
    /\ Len(instructions) = 0
    /\ pc' = "walked"
    /\ UNCHANGED others
    /\ UNCHANGED <<line, network, part, instructions, starts, targets, idx, acc,
                   start, cur, steps, pos, result>>

---------------------------------------------------------------------------
(* calculate_result, after a walk *)

\* PuzzlePart::One: res is the step count; Ok(res)
FinishOne ==
    /\ pc = "walked"
    /\ part = "One"
    /\ result' = steps
    /\ pc' = "done"
    /\ UNCHANGED others
    /\ UNCHANGED <<line, network, part, instructions, starts, targets, idx, acc,
                   start, cur, steps, pos>>

\* PuzzlePart::Two: lcm(acc, network.steps(x, ...))
FoldStep ==
    /\ pc = "walked"
    /\ part = "Two"
    /\ acc' = lcm(acc, steps)
    /\ idx' = idx + 1
    /\ pc' = "fold"
    /\ UNCHANGED others
    /\ UNCHANGED <<line, network, part, instructions, starts, targets, start, cur,
                   steps, pos, result>>

\* PuzzlePart::Two: the fold is over; Ok(res)
FinishTwo ==
    /\ pc = "fold"
    /\ idx > Len(starts)
    /\ result' = acc
    /\ pc' = "done"
    /\ UNCHANGED others
    /\ UNCHANGED <<line, network, part, instructions, starts, targets, idx, acc,
                   start, cur, steps, pos>>

---------------------------------------------------------------------------
(* Specifications *)

WalkNext == Continue \/ Done \/ UnknownNode \/ Exhausted

Next ==
    \/ ParseInput
    \/ SelectOne
    \/ SelectTwo
    \/ BeginWalk
    \/ WalkNext
    \/ FinishOne
    \/ FoldStep
    \/ FinishTwo

Spec == Init /\ [][Next]_vars

WalkSpec == WalkInit /\ [][WalkNext]_vars

LiveWalkSpec == WalkSpec /\ WF_vars(WalkNext)

---------------------------------------------------------------------------
(* What the claims speak of, defined from the inputs alone *)

Range(f) == { f[i] : i \in DOMAIN f }

\* how far the reference path below is followed
Horizon == 4 * MaxSteps

\* no element refers to an id without an entry
NoDangling ==
    \A k \in DOMAIN network :
        network[k].left \in DOMAIN network /\ network[k].right \in DOMAIN network

\* the instruction of step k (k = 1, 2, ...) under cyclic replay
InstructionAt(k) == instructions[((k - 1) % Len(instructions)) + 1]

\* the node one edge after c at step k; None when c has no entry
EdgeAt(c, k) ==
    IF c \notin DOMAIN network THEN None
    ELSE IF InstructionAt(k) = "Left" THEN network[c].left ELSE network[c].right

\* the nodes after steps k, k + 1, ..., n of the walk that stands on c before step k
RECURSIVE PathFrom(_, _, _)
PathFrom(c, k, n) ==
    IF k > n THEN <<>>
    ELSE LET nx == EdgeAt(c, k) IN <<nx>> \o PathFrom(nx, k + 1, n)

\* the nodes after steps 1..n from s
Path(s, n) == IF Len(instructions) = 0 THEN <<>> ELSE PathFrom(s, 1, n)

\* the steps k in 1..n after which the walk from s stands on a target
Arrivals(s, n) == LET p == Path(s, n) IN { k \in 1..Len(p) : p[k] \in targets }

\* the steps k in 1..n at which the walk from s has fallen off the network
Failures(s, n) == LET p == Path(s, n) IN { k \in 1..Len(p) : p[k] = None }

Min(S) == CHOOSE m \in S : \A x \in S : m <= x

\* the first arrival within n steps, 0 when there is none
FirstArrival(s, n) == LET a == Arrivals(s, n) IN IF a = {} THEN 0 ELSE Min(a)

\* the least common multiple of two positive numbers, by its definition
RefLcm(a, b) ==
    IF a = 0 \/ b = 0 THEN 0
    ELSE Min({ m \in 1..(a * b) : m % a = 0 /\ m % b = 0 })

Returns(k) == [kind |-> "count", n |-> k]
Panics == [kind |-> "panic", n |-> 0]
Diverges == [kind |-> "diverge", n |-> 0]

\* what one walk from s comes to: a step count, the panic, or no end
RefOutcome(s) ==
    IF Len(instructions) = 0 THEN Returns(0)
    ELSE LET a == FirstArrival(s, Horizon)
             f == Failures(s, Horizon)
         IN  IF a # 0 /\ (f = {} \/ a < Min(f)) THEN Returns(a)
             ELSE IF f # {} THEN Panics
             ELSE Diverges

IsCount(o) == o.kind = "count"

\* what the fold over the starts in order p comes to
RECURSIVE RefSync(_, _, _)
RefSync(p, i, a) ==
    IF i > Len(p) THEN Returns(a)
    ELSE LET o == RefOutcome(p[i]) IN
         IF IsCount(o) THEN RefSync(p, i + 1, RefLcm(a, o.n)) ELSE o

---------------------------------------------------------------------------
(* C1 *)

\* C1: on a network without dangling references and with a non-empty
\* instruction sequence, the step count a walk returns is the smallest k >= 1
\* such that the node reached from start by the first k instructions of the
\* cyclic sequence is a target; it is never 0. Scenario A returns 2.
C1_StepsIsFirstArrival ==
    /\ (pc = "walked" /\ Len(instructions) > 0 /\ NoDangling)
         => /\ steps >= 1
            /\ steps = FirstArrival(start, MaxSteps)
            /\ cur = Path(start, steps)[steps]
    /\ (/\ pc = "walked"
        /\ network = EXAMPLE_DIRECT_PART_1.network
        /\ instructions = <<"Right", "Left">>
        /\ start = AAA
        /\ targets = {ZZZ})
         => steps = 2

C1_Witness ==
    /\ pc = "walked"
    /\ NoDangling
    /\ network = EXAMPLE_CIRCULAR_PART_1.network
    /\ instructions = <<"Left", "Left", "Right">>
    /\ start = AAA
    /\ targets = {ZZZ}
    /\ steps = 6

---------------------------------------------------------------------------
(* C2 *)

\* C2: a walk that took an edge to an id without an entry ends in the fatal
\* error and returns no step count, also when that id is in the target set.
C2_AbsentIdIsFatal ==
    (pc \in {"walked", "done"} /\ Len(instructions) > 0) => cur \in DOMAIN network

---------------------------------------------------------------------------
(* C3 *)

\* C3: for an input whose instruction line is empty no walk is run and no
\* step count is returned, in either puzzle part.
C3_EmptyInstructionsRejected ==
    line = <<>> => pc \in {"input", "error"}

---------------------------------------------------------------------------
(* C4 *)

\* C4 as stated: a walk whose start is in the target set returns 0.
C4_StartInTargetReturnsZero ==
    (pc = "walked" /\ start \in targets) => steps = 0

\* C4 amended: a walk returns 0 only for an empty instruction sequence; with
\* a non-empty one a start that is in the target set does not end the walk,
\* which returns the smallest k >= 1 at which it arrives at a target.
C4_StartInTargetIsNoArrival ==
    /\ (pc = "walked" /\ steps = 0) => Len(instructions) = 0
    /\ (pc = "walked" /\ start \in targets /\ Len(instructions) > 0)
         => steps = FirstArrival(start, MaxSteps) /\ steps >= 1

C4_Witness ==
    /\ pc = "walked"
    /\ start \in targets
    /\ Len(instructions) > 0
    /\ cur # start
    /\ steps = 2

---------------------------------------------------------------------------
(* C5 *)

\* C5: with a non-empty instruction sequence and no dangling reference, a
\* walk from whose start a target is reached under cyclic replay ends with a
\* step count >= 1.
C5_WalkTerminates ==
    (/\ pc = "walk"
     /\ Len(instructions) > 0
     /\ NoDangling
     /\ FirstArrival(start, MaxSteps) # 0)
      ~> (pc = "walked" /\ steps >= 1)

C5_Witness ==
    /\ pc = "walked"
    /\ Len(instructions) > 0
    /\ NoDangling
    /\ FirstArrival(start, MaxSteps) # 0
    /\ steps > Len(instructions)

---------------------------------------------------------------------------
(* C6 *)

\* C6: the result of PuzzlePart::Two is the fold of lcm, seeded with 1, over
\* the step counts of one walk per start, each against the whole target set;
\* in the example the walks from 11A and 22A return 2 and 3 and the result
\* is 6.
C6_PartTwoIsLcmFold ==
    /\ (pc = "done" /\ part = "Two")
         => /\ \A i \in 1..Len(starts) : IsCount(RefOutcome(starts[i]))
            /\ Returns(result) = RefSync(starts, 1, 1)
            /\ targets = { k \in DOMAIN network : k[3] = "Z" }
    /\ (part = "Two" /\ network = EXAMPLE_PART_2.network /\ line = EXAMPLE_PART_2.line)
         => /\ (pc = "walked" /\ start = A11) => steps = 2
            /\ (pc = "walked" /\ start = A22) => steps = 3
            /\ pc = "done" => result = 6

C6_Witness ==
    /\ pc = "done"
    /\ part = "Two"
    /\ network = EXAMPLE_PART_2.network
    /\ line = EXAMPLE_PART_2.line
    /\ Range(starts) = {A11, A22}
    /\ result = 6

---------------------------------------------------------------------------
(* C7 *)

\* the walk from s stands on a target exactly after the positive multiples of
\* its first arrival
Periodic(s) ==
    /\ Len(instructions) > 0
    /\ LET f == FirstArrival(s, Horizon)
           a == Arrivals(s, Horizon)
       IN  /\ f # 0
           /\ a = { k \in 1..Horizon : k % f = 0 }

\* the steps after which all walks, advanced in lockstep, stand on a target
Simultaneous == { k \in 1..Horizon : \A i \in 1..Len(starts) : k \in Arrivals(starts[i], Horizon) }

\* C7: if every start's walk stands on a target exactly after the positive
\* multiples of its first arrival, the result of PuzzlePart::Two is the
\* smallest k >= 1 after which all walks, advanced in lockstep, stand on a
\* target together.
C7_LcmIsFirstSimultaneous ==
    (/\ pc = "done"
     /\ part = "Two"
     /\ Len(instructions) > 0
     /\ \A i \in 1..Len(starts) : Periodic(starts[i]))
      => /\ result \in Simultaneous
         /\ \A k \in Simultaneous : result <= k

C7_Witness ==
    /\ pc = "done"
    /\ part = "Two"
    /\ Len(starts) = 2
    /\ \A i \in 1..Len(starts) : Periodic(starts[i])
    /\ result > FirstArrival(starts[1], Horizon)
    /\ result > FirstArrival(starts[2], Horizon)

---------------------------------------------------------------------------
(* C8 *)

\* what calculate_result comes to when the starts are walked in order p
SyncOutcome(p) == RefSync(p, 1, 1)

\* C8 as stated: every order of the same starts has the same outcome, the
\* same combined count or the same failure or non-termination.
C8_OrderInvariantOutcome ==
    (part = "Two" /\ pc = "panic")
      => \A p \in Orders(Range(starts)) : SyncOutcome(p) = Panics

\* C8 amended: when calculate_result returns a count, every order of the
\* starts gives that same count; when a walk panics or is still walking after
\* MaxSteps steps, no order of the starts returns a count.
C8_OrderInvariantCount ==
    /\ (part = "Two" /\ pc = "done")
         => \A p \in Orders(Range(starts)) : SyncOutcome(p) = Returns(result)
    /\ (part = "Two" /\ (pc = "panic" \/ (pc = "walk" /\ steps = MaxSteps)))
         => \A p \in Orders(Range(starts)) : ~IsCount(SyncOutcome(p))

C8_Witness ==
    /\ part = "Two"
    /\ pc = "done"
    /\ Len(starts) = 2
    /\ RefOutcome(starts[1]) # RefOutcome(starts[2])
    /\ result > 1

---------------------------------------------------------------------------
(* C9 *)

\* C9: with a single start the result of PuzzlePart::Two is the step count
\* the walk from that start returned.
C9_SingleStartIsWalk ==
    (pc = "done" /\ part = "Two" /\ Len(starts) = 1)
      => /\ result = steps
         /\ start = starts[1]
         /\ Returns(result) = RefOutcome(starts[1])

C9_Witness ==
    /\ pc = "done"
    /\ part = "Two"
    /\ Len(starts) = 1
    /\ steps >= 2

---------------------------------------------------------------------------
(* C10 *)

\* C10: on a network without dangling references, a walk from whose start no
\* target is ever reached under cyclic replay returns no step count and
\* reports no error.
C10_NoArrivalNeverReturns ==
    (/\ pc \in {"walked", "panic"}
     /\ NoDangling
     /\ start \in DOMAIN network)
      => Arrivals(start, Horizon) # {}

---------------------------------------------------------------------------
(* Several calls of Network::steps side by side, one per start position:   *)
(* steps borrows the network, the target set and the instructions shared.  *)

ParInit ==
    /\ \/ instructions \in InstructionSeqs /\ network \in GeneratedNetworks
       \/ \E ex \in Examples :
            instructions = ParseInstructions(ex.line).value /\ network = ex.network
    /\ targets = EndPositions(network)
    /\ walks = [w \in StartPositions(network) |->
                  [cur |-> w, steps |-> 0, pos |-> 1, pc |-> "walk"]]
    /\ line = <<>>
    /\ part = "Two"
    /\ starts = <<>>
    /\ idx = 0
    /\ acc = 0
    /\ start = None
    /\ cur = None
    /\ steps = 0
    /\ pos = 0
    /\ pc = "par"
    /\ result = 0
    /\ DaysIdle

Advance_SharedCursor(ws, w, next, to) ==
    [v \in DOMAIN ws |->
        IF v = w
        THEN [cur |-> next, steps |-> Count(ws[v].steps),
              pos |-> CycleNext(ws[v].pos, instructions), pc |-> to]
        ELSE [ws[v] EXCEPT !.pos = CycleNext(@, instructions)]]

\* one iteration of fold_while in the walk from w: its own (steps + 1, next)
Advance(ws, w, next, to) ==
    [ws EXCEPT ![w] = [cur |-> next, steps |-> Count(@.steps),
                       pos |-> CycleNext(@.pos, instructions), pc |-> to]]

ParContinue(w) ==
    /\ walks[w].pc = "walk"
    /\ Len(instructions) > 0
    /\ walks[w].steps < MaxSteps
    /\ LET next == take_step(network, walks[w].cur, instructions[walks[w].pos]) IN
         /\ next # None
         /\ ~Contains(targets, next)
         /\ walks' = Advance(walks, w, next, "walk")
    /\ UNCHANGED <<day8, days>>

ParDone(w) ==
    /\ walks[w].pc = "walk"
    /\ Len(instructions) > 0
    /\ walks[w].steps < MaxSteps
    /\ LET next == take_step(network, walks[w].cur, instructions[walks[w].pos]) IN
         /\ next # None
         /\ Contains(targets, next)
         /\ walks' = Advance(walks, w, next, "walked")
    /\ UNCHANGED <<day8, days>>

ParUnknownNode(w) ==
    /\ walks[w].pc = "walk"
    /\ Len(instructions) > 0
    /\ walks[w].steps < MaxSteps
    /\ take_step(network, walks[w].cur, instructions[walks[w].pos]) = None
    /\ walks' = [walks EXCEPT ![w].pc = "panic"]
    /\ UNCHANGED <<day8, days>>

ParExhausted(w) ==
    /\ walks[w].pc = "walk"
    /\ Len(instructions) = 0
    /\ walks' = [walks EXCEPT ![w].pc = "walked"]
    /\ UNCHANGED <<day8, days>>

ParNext ==
    \/ \E w \in DOMAIN walks : ParContinue(w)
    \/ \E w \in DOMAIN walks : ParDone(w)
    \/ \E w \in DOMAIN walks : ParUnknownNode(w)
    \/ \E w \in DOMAIN walks : ParExhausted(w)

ParSpec == ParInit /\ [][ParNext]_vars

---------------------------------------------------------------------------
(* C11 *)

\* C11: walks, one per start, whose steps are interleaved in any order each
\* end as they do alone, with the same step count; every step leaves the
\* network, the instructions and the target set unchanged and writes the
\* current node and counter of one walk only.
C11_InterleavedWalksAgree ==
    /\ [](\A w \in DOMAIN walks :
            /\ walks[w].pc = "walked" => Returns(walks[w].steps) = RefOutcome(w)
            /\ walks[w].pc = "panic" => RefOutcome(w) = Panics)
    /\ [][/\ network' = network
          /\ instructions' = instructions
          /\ targets' = targets
          /\ \E w \in DOMAIN walks :
                \A v \in DOMAIN walks \ {w} : walks'[v] = walks[v]]_vars

C11_Witness ==
    /\ DOMAIN walks = {A11, A22}
    /\ walks[A11].pc = "walked" /\ walks[A11].steps = 2
    /\ walks[A22].pc = "walk" /\ walks[A22].steps = 1

---------------------------------------------------------------------------
(* Day 7: hands, their types and their order (src/day-7/src/main.rs)       *)

MaxBid == 2

\* enum Card, in the order of its declaration (the derived Ord)
Cards == <<"Joker", "Two", "Three", "Four", "Five", "Six", "Seven", "Eight",
           "Nine", "Ten", "Jack", "Queen", "King", "Ace">>

\* enum HandType, in the order of its declaration (the derived Ord)
HandTypes == <<"HighCard", "OnePair", "TwoPair", "ThreeOfAKind", "FullHouse",
               "FourOfAKind", "FiveOfAKind">>

IndexIn(seq, x) == CHOOSE i \in 1..Len(seq) : seq[i] = x

\* Card::try_from((c, puzzle_part))
CardTryFrom(c, p) ==
    CASE c = "2" -> "Two"
      [] c = "3" -> "Three"
      [] c = "4" -> "Four"
      [] c = "5" -> "Five"
      [] c = "6" -> "Six"
      [] c = "7" -> "Seven"
      [] c = "8" -> "Eight"
      [] c = "9" -> "Nine"
      [] c = "T" -> "Ten"
      [] c = "J" /\ p = "One" -> "Jack"
      [] c = "J" /\ p = "Two" -> "Joker"
      [] c = "Q" -> "Queen"
      [] c = "K" -> "King"
      [] c = "A" -> "Ace"
      [] OTHER -> "Err"

\* Hand::try_from((s, puzzle_part)); the bid is taken as the number it spells
HandTryFrom(l, p) ==
    IF \E i \in 1..Len(l.cards) : CardTryFrom(l.cards[i], p) = "Err"
    THEN [ok |-> FALSE, cards |-> <<>>, bid |-> 0]
    ELSE IF Len(l.cards) # 5
    THEN [ok |-> FALSE, cards |-> <<>>, bid |-> 0]
    ELSE [ok |-> TRUE,
          cards |-> [i \in 1..5 |-> CardTryFrom(l.cards[i], p)],
          bid |-> l.bid]

\* .sorted().rev() of the counts of the kinds in S
RECURSIVE SortedRev(_, _)
SortedRev(S, cnt) ==
    IF S = {} THEN <<>>
    ELSE LET k == CHOOSE k \in S : \A j \in S : cnt[k] >= cnt[j]
         IN  <<cnt[k]>> \o SortedRev(S \ {k}, cnt)

hand_type_JokerIsAKind(cards) ==
    LET kinds == {cards[i] : i \in 1..Len(cards)}
        cnt == [k \in kinds |-> Cardinality({i \in 1..Len(cards) : cards[i] = k})]
        amounts == SortedRev(kinds, cnt)
    IN  CASE amounts = <<5>> -> "FiveOfAKind"
          [] amounts = <<4, 1>> -> "FourOfAKind"
          [] amounts = <<3, 2>> -> "FullHouse"
          [] amounts = <<3, 1, 1>> -> "ThreeOfAKind"
          [] amounts = <<2, 2, 1>> -> "TwoPair"
          [] amounts = <<2, 1, 1, 1>> -> "OnePair"
          [] amounts = <<1, 1, 1, 1, 1>> -> "HighCard"
          [] OTHER -> "unreachable"

\* Hand::hand_type
hand_type(cards) ==
    LET jokers == Cardinality({i \in 1..Len(cards) : cards[i] = "Joker"})
        kinds == {cards[i] : i \in 1..Len(cards)} \ {"Joker"}
        cnt == [k \in kinds |-> Cardinality({i \in 1..Len(cards) : cards[i] = k})]
        sorted == SortedRev(kinds, cnt)
        amounts == IF sorted = <<>> THEN <<jokers>>
                   ELSE [sorted EXCEPT ![1] = @ + jokers]
    IN  CASE amounts = <<5>> -> "FiveOfAKind"
          [] amounts = <<4, 1>> -> "FourOfAKind"
          [] amounts = <<3, 2>> -> "FullHouse"
          [] amounts = <<3, 1, 1>> -> "ThreeOfAKind"
          [] amounts = <<2, 2, 1>> -> "TwoPair"
          [] amounts = <<2, 1, 1, 1>> -> "OnePair"
          [] amounts = <<1, 1, 1, 1, 1>> -> "HighCard"
          [] OTHER -> "unreachable"

\* Ord::cmp of two numbers
CmpInt(a, b) == IF a < b THEN "Less" ELSE IF a > b THEN "Greater" ELSE "Equal"

\* the derived Ord of [Card; 5]: the first position that differs decides
CmpCards(a, b) ==
    LET d == {i \in 1..5 : a[i] # b[i]} IN
    IF d = {} THEN "Equal"
    ELSE LET i == CHOOSE i \in d : \A j \in d : i <= j
         IN  CmpInt(IndexIn(Cards, a[i]), IndexIn(Cards, b[i]))

cmp_CardsOnly(h1, h2) == CmpCards(h1.cards, h2.cards)

\* impl Ord for Hand
cmp(h1, h2) ==
    LET t == CmpInt(IndexIn(HandTypes, hand_type(h1.cards)),
                    IndexIn(HandTypes, hand_type(h2.cards)))
    IN  IF t # "Equal" THEN t ELSE CmpCards(h1.cards, h2.cards)

\* lines Hand::try_from rejects: an unknown card, four cards
BadHands == { <<"2", "X", "2", "2", "2">>, <<"2", "2", "2", "2">> }

\* the hands of the tests, and hands with J, which part Two reads as the wildcard
HandCards ==
    { <<"3", "2", "T", "3", "K">>, <<"T", "5", "5", "J", "5">>,
      <<"K", "K", "6", "7", "7">>, <<"K", "T", "J", "J", "T">>,
      <<"Q", "Q", "Q", "J", "A">>, <<"A", "A", "A", "A", "A">>,
      <<"A", "A", "8", "A", "A">>, <<"2", "3", "3", "3", "2">>,
      <<"T", "T", "T", "9", "8">>, <<"2", "3", "4", "3", "2">>,
      <<"A", "2", "3", "A", "4">>, <<"2", "3", "4", "5", "6">>,
      <<"3", "3", "3", "3", "2">>, <<"2", "A", "A", "A", "A">>,
      <<"J", "J", "J", "J", "J">>, <<"J", "2", "2", "2", "2">>,
      <<"2", "2", "2", "2", "J">>, <<"2", "2", "2", "2", "2">>,
      <<"2", "J", "J", "3", "3">>, <<"2", "3", "4", "5", "J">> }

\* three hands are read, the first with any bid
Day7Init ==
    /\ \E a \in HandCards \cup BadHands, b, c \in HandCards, n \in 1..MaxBid :
         d7input = << [cards |-> a, bid |-> n], [cards |-> b, bid |-> 1],
                      [cards |-> c, bid |-> 1] >>
    /\ d7part \in {"One", "Two"}
    /\ d7hands = <<>>
    /\ d7cmp = <<>>
    /\ d7pc = "input"
    /\ OtherDaysIdle(7)

\* parse_input: every line becomes a Hand, or the first error is returned
ParseHands ==
    /\ d7pc = "input"
    /\ LET parsed == [i \in 1..Len(d7input) |-> HandTryFrom(d7input[i], d7part)] IN
         IF \A i \in 1..Len(parsed) : parsed[i].ok
         THEN /\ d7hands' = [i \in 1..Len(parsed) |->
                               [cards |-> parsed[i].cards, bid |-> parsed[i].bid]]
              /\ d7pc' = "parsed"
         ELSE /\ d7hands' = d7hands
              /\ d7pc' = "error"
    /\ UNCHANGED <<d7input, d7part, d7cmp>>
    /\ OtherDaysUnchanged(7)

\* the hands are compared with one another, as sorted() does
CompareHands ==
    /\ d7pc = "parsed"
    /\ d7cmp' = [p \in (1..Len(d7hands)) \X (1..Len(d7hands)) |->
                   cmp(d7hands[p[1]], d7hands[p[2]])]
    /\ d7pc' = "compared"
    /\ UNCHANGED <<d7input, d7part, d7hands>>
    /\ OtherDaysUnchanged(7)

Day7Next == ParseHands \/ CompareHands

Day7Spec == Day7Init /\ [][Day7Next]_vars

\* the card characters from weakest to strongest: J is the wildcard, weaker
\* than 2, in part Two
Strengths(p) ==
    IF p = "Two"
    THEN <<"J", "2", "3", "4", "5", "6", "7", "8", "9", "T", "Q", "K", "A">>
    ELSE <<"2", "3", "4", "5", "6", "7", "8", "9", "T", "J", "Q", "K", "A">>

Strength(c, p) == CHOOSE i \in 1..13 : Strengths(p)[i] = c

Flip(o) == IF o = "Less" THEN "Greater" ELSE IF o = "Greater" THEN "Less" ELSE o

\* the position-by-position comparison of the lines a and b by card strength
ByPosition(a, b, p) ==
    LET d == {i \in 1..5 : a[i] # b[i]}
        i == Min(d)
    IN  IF Strength(a[i], p) < Strength(b[i], p) THEN "Less" ELSE "Greater"

TypeOf(i) == IndexIn(HandTypes, hand_type(d7hands[i].cards))

\* C12: the comparison of hands is a total order (every two hands compare one
\* way and the reverse the other way, the order is transitive, and two hands
\* are equal exactly when their five cards agree position by position,
\* whatever their bids); a hand of a stronger type is greater; hands of one
\* type are ordered by the first position where their cards differ, by card
\* strength, J being the weakest card in part Two; 33332 beats 2AAAA and
\* AAAAA beats AA8AA.
C12_HandOrderIsTotal ==
    d7pc = "compared" =>
        /\ \A i, j \in 1..3 :
             /\ d7cmp[<<i, j>>] \in {"Less", "Equal", "Greater"}
             /\ d7cmp[<<i, j>>] = Flip(d7cmp[<<j, i>>])
             /\ d7cmp[<<i, j>>] = "Equal" <=> d7input[i].cards = d7input[j].cards
             /\ TypeOf(i) > TypeOf(j) => d7cmp[<<i, j>>] = "Greater"
             /\ TypeOf(i) = TypeOf(j) /\ d7input[i].cards # d7input[j].cards
                  => d7cmp[<<i, j>>] = ByPosition(d7input[i].cards, d7input[j].cards, d7part)
        /\ \A i, j, k \in 1..3 :
             d7cmp[<<i, j>>] # "Greater" /\ d7cmp[<<j, k>>] # "Greater"
                => /\ d7cmp[<<i, k>>] # "Greater"
                   /\ d7cmp[<<i, k>>] = "Equal"
                        => d7cmp[<<i, j>>] = "Equal" /\ d7cmp[<<j, k>>] = "Equal"
        /\ d7part = "One" =>
             \A i, j \in 1..3 :
                /\ d7input[i].cards = <<"3", "3", "3", "3", "2">>
                     /\ d7input[j].cards = <<"2", "A", "A", "A", "A">>
                     => d7cmp[<<i, j>>] = "Greater"
                /\ d7input[i].cards = <<"A", "A", "A", "A", "A">>
                     /\ d7input[j].cards = <<"A", "A", "8", "A", "A">>
                     => d7cmp[<<i, j>>] = "Greater"

\* in part Two the wildcard hands J2222 and 2222J are five of a kind, so both
\* beat 33332, and J2222 is the lesser of the two
C12_Witness ==
    /\ d7pc = "compared"
    /\ d7part = "Two"
    /\ d7input[1] = [cards |-> <<"J", "2", "2", "2", "2">>, bid |-> 2]
    /\ d7input[2].cards = <<"2", "2", "2", "2", "J">>
    /\ d7input[3].cards = <<"3", "3", "3", "3", "2">>
    /\ d7cmp[<<1, 2>>] = "Less"
    /\ d7cmp[<<3, 2>>] = "Less"
    /\ d7cmp[<<1, 3>>] = "Greater"

---------------------------------------------------------------------------
(* Day 5: the almanac's range mappings (src/day-5/src/main.rs)             *)

MaxMappings == 2
MaxSeed == 3

Categories == <<"Seed", "Soil", "Fertilizer", "Water", "Light", "Temperature",
                "Humidity", "Location">>

\* Option<T>
NoneOpt == [some |-> FALSE, value |-> 0]
Some(v) == [some |-> TRUE, value |-> v]

\* Category::next
CategoryNext(c) ==
    CASE c = "Seed" -> Some("Soil")
      [] c = "Soil" -> Some("Fertilizer")
      [] c = "Fertilizer" -> Some("Water")
      [] c = "Water" -> Some("Light")
      [] c = "Light" -> Some("Temperature")
      [] c = "Temperature" -> Some("Humidity")
      [] c = "Humidity" -> Some("Location")
      [] OTHER -> NoneOpt

\* a line "destination source len" of a map
Mapping(d, s, l) == [source_range |-> s, destination_range |-> d, len |-> l]

\* (source_range..source_range + len).contains(&source_number); the numbers
\* are u64 and those drawn here stay far below 2^64, so no sum wraps
InRange_Closed(m, n) == m.source_range <= n /\ n <= m.source_range + m.len
InRange(m, n) == m.source_range <= n /\ n < m.source_range + m.len

\* mappings.iter().copied().find_map(..).unwrap_or(source_number)
FindMap(mappings, n) ==
    LET hits == {i \in 1..Len(mappings) : InRange(mappings[i], n)} IN
    IF hits = {} THEN n
    ELSE LET m == mappings[CHOOSE i \in hits : \A j \in hits : i <= j]
         IN  m.destination_range + (n - m.source_range)

\* Almanac::convert
convert(almanac, source_category, source_number) ==
    LET new_category == CategoryNext(source_category) IN
    IF ~new_category.some THEN NoneOpt
    ELSE IF source_category \notin DOMAIN almanac.conversions THEN NoneOpt
    ELSE Some(<<new_category.value,
                FindMap(almanac.conversions[source_category], source_number)>>)

\* the example of the tests
EXAMPLE_ALMANAC ==
    [seeds |-> <<79, 14, 55, 13>>,
     conversions |-> [
        Seed |-> << Mapping(50, 98, 2), Mapping(52, 50, 48) >>,
        Soil |-> << Mapping(0, 15, 37), Mapping(37, 52, 2), Mapping(39, 0, 15) >>,
        Fertilizer |-> << Mapping(49, 53, 8), Mapping(0, 11, 42), Mapping(42, 0, 7), Mapping(57, 7, 4) >>,
        Water |-> << Mapping(88, 18, 7), Mapping(18, 25, 70) >>,
        Light |-> << Mapping(45, 77, 23), Mapping(81, 45, 19), Mapping(68, 64, 13) >>,
        Temperature |-> << Mapping(0, 69, 1), Mapping(1, 0, 69) >>,
        Humidity |-> << Mapping(60, 56, 37), Mapping(56, 93, 4) >> ]]

\* an almanac whose seed map is first, whose other maps are later, and that
\* has no map for the categories in missing
AlmanacOf(seeds, first, later, missing) ==
    [seeds |-> seeds,
     conversions |-> [c \in ({Categories[i] : i \in 1..7} \ missing) |->
                        IF c = "Seed" THEN first ELSE later]]

\* the seed maps are made of map lines whose ranges overlap, touch, are
\* empty or map into one another
GeneratedAlmanacs ==
    { AlmanacOf(seeds, first, later, missing) :
        seeds \in {s \in SeqsUpTo(0..MaxSeed, 2) : s # <<>>},
        first \in SeqsUpTo({ Mapping(2, 0, 2), Mapping(0, 1, 2), Mapping(5, 0, 0),
                              Mapping(1, 2, 1), Mapping(4, 1, 1), Mapping(0, 3, 3) },
                            MaxMappings),
        later \in { <<>>, <<Mapping(1, 0, 2)>>, <<Mapping(0, 2, 2), Mapping(3, 0, 1)>> },
        missing \in {{}, {"Water"}} }

\* calculate_result(input, puzzle_part) has parsed the almanac
Day5Init ==
    /\ d5almanac \in GeneratedAlmanacs \cup {EXAMPLE_ALMANAC}
    /\ d5part \in {"One", "Two"}
    /\ d5queue = <<>>
    /\ d5seed = 0
    /\ d5cat = "None"
    /\ d5num = 0
    /\ d5ret = NoneOpt
    /\ d5min = NoneOpt
    /\ d5result = 0
    /\ d5pc = "parsed"
    /\ OtherDaysIdle(5)

\* array_chunks::<2>().flat_map(..): the ranges of the pairs, a last odd seed dropped
RECURSIVE FlatChunks(_)
FlatChunks(seeds) ==
    IF Len(seeds) < 2 THEN <<>>
    ELSE [i \in 1..seeds[2] |-> seeds[1] + i - 1] \o FlatChunks(SubSeq(seeds, 3, Len(seeds)))

\* the iterator over the seed numbers of the part is set up
SeedNumbers ==
    /\ d5pc = "parsed"
    /\ d5queue' = IF d5part = "One" THEN d5almanac.seeds ELSE FlatChunks(d5almanac.seeds)
    /\ d5pc' = "next"
    /\ UNCHANGED <<d5almanac, d5part, d5seed, d5cat, d5num, d5ret, d5min, d5result>>
    /\ OtherDaysUnchanged(5)

\* convert_seed_to_location(seed_number) is called on the next seed number
NextSeed ==
    /\ d5pc = "next"
    /\ d5queue # <<>>
    /\ d5seed' = Head(d5queue)
    /\ d5queue' = Tail(d5queue)
    /\ d5cat' = "Seed"
    /\ d5num' = Head(d5queue)
    /\ d5pc' = "convert"
    /\ UNCHANGED <<d5almanac, d5part, d5ret, d5min, d5result>>
    /\ OtherDaysUnchanged(5)

\* one turn of the loop: convert yields None, and so does the function
ConvertNone ==
    /\ d5pc = "convert"
    /\ ~convert(d5almanac, d5cat, d5num).some
    /\ d5ret' = NoneOpt
    /\ d5pc' = "returned"
    /\ UNCHANGED <<d5almanac, d5part, d5queue, d5seed, d5cat, d5num, d5min, d5result>>
    /\ OtherDaysUnchanged(5)

\* one turn of the loop: the new category is Location, the number is returned
ConvertLocation ==
    /\ d5pc = "convert"
    /\ LET r == convert(d5almanac, d5cat, d5num) IN
         /\ r.some
         /\ r.value[1] = "Location"
         /\ d5ret' = Some(r.value[2])
    /\ d5pc' = "returned"
    /\ UNCHANGED <<d5almanac, d5part, d5queue, d5seed, d5cat, d5num, d5min, d5result>>
    /\ OtherDaysUnchanged(5)

\* one turn of the loop: the loop goes on from the new category and number
ConvertOn ==
    /\ d5pc = "convert"
    /\ LET r == convert(d5almanac, d5cat, d5num) IN
         /\ r.some
         /\ r.value[1] # "Location"
         /\ d5cat' = r.value[1]
         /\ d5num' = r.value[2]
    /\ UNCHANGED <<d5almanac, d5part, d5queue, d5seed, d5ret, d5min, d5result, d5pc>>
    /\ OtherDaysUnchanged(5)

\* filter_map(..).min() takes in what the function returned
MinStep ==
    /\ d5pc = "returned"
    /\ d5min' = IF ~d5ret.some THEN d5min
                ELSE IF d5min.some /\ d5min.value <= d5ret.value THEN d5min
                ELSE d5ret
    /\ d5pc' = "next"
    /\ UNCHANGED <<d5almanac, d5part, d5queue, d5seed, d5cat, d5num, d5ret, d5result>>
    /\ OtherDaysUnchanged(5)

\* the seed numbers are used up: .unwrap_or(0)
Day5Finish ==
    /\ d5pc = "next"
    /\ d5queue = <<>>
    /\ d5result' = IF d5min.some THEN d5min.value ELSE 0
    /\ d5pc' = "done"
    /\ UNCHANGED <<d5almanac, d5part, d5queue, d5seed, d5cat, d5num, d5ret, d5min>>
    /\ OtherDaysUnchanged(5)

Day5Next ==
    \/ SeedNumbers
    \/ NextSeed
    \/ ConvertNone
    \/ ConvertLocation
    \/ ConvertOn
    \/ MinStep
    \/ Day5Finish

Day5Spec == Day5Init /\ [][Day5Next]_vars

\* the number the maps of category c send n to: the first listed map line
\* whose interval holds n decides
RECURSIVE RefLookup(_, _)
RefLookup(mappings, n) ==
    IF mappings = <<>> THEN n
    ELSE LET m == Head(mappings) IN
         IF n \in {x \in m.source_range..(m.source_range + m.len - 1) : TRUE}
         THEN m.destination_range + (n - m.source_range)
         ELSE RefLookup(Tail(mappings), n)

\* the seven conversions from Seed, one after the other
RECURSIVE RefChain(_, _, _)
RefChain(almanac, i, n) ==
    IF i > 7 THEN n
    ELSE RefChain(almanac, i + 1, RefLookup(almanac.conversions[Categories[i]], n))

AllMaps(almanac) == \A i \in 1..7 : Categories[i] \in DOMAIN almanac.conversions

\* C13: a conversion from a category that has a successor and a map list
\* yields the successor and the number the first listed map line whose
\* half-open interval holds the number sends it to, the number itself when
\* none does; with all seven maps the function returns the seven conversions
\* chained from Seed, and part one returns the least location of the seeds
\* (35 for the example).
C13_ConvertIsFirstMatch ==
    /\ [][d5pc = "convert" /\ d5cat \in DOMAIN d5almanac.conversions
            /\ CategoryNext(d5cat).some =>
              LET n == RefLookup(d5almanac.conversions[d5cat], d5num)
                  c == Categories[IndexIn(Categories, d5cat) + 1]
              IN  IF c = "Location"
                  THEN d5pc' = "returned" /\ d5ret' = Some(n)
                  ELSE d5pc' = "convert" /\ d5cat' = c /\ d5num' = n]_vars
    /\ [](d5pc = "returned" /\ AllMaps(d5almanac)
            => d5ret = Some(RefChain(d5almanac, 1, d5seed)))
    /\ [](d5pc = "done" /\ d5part = "One" /\ AllMaps(d5almanac)
            => LET locations == {RefChain(d5almanac, 1, d5almanac.seeds[i]) :
                                   i \in 1..Len(d5almanac.seeds)}
               IN  /\ d5result \in locations
                   /\ \A l \in locations : d5result <= l
                   /\ d5almanac = EXAMPLE_ALMANAC => d5result = 35)

\* part one is done on an almanac whose overlapping seed maps send seed 1 to
\* 3 by the first of them, and seed 3, which the maps leave out, to itself
C13_Witness ==
    /\ d5pc = "done"
    /\ d5part = "One"
    /\ d5almanac = AlmanacOf(<<1, 3>>, <<Mapping(2, 0, 2), Mapping(0, 1, 2)>>, <<>>, {})
    /\ d5result = 3

---------------------------------------------------------------------------
(* Day 4: scratchcards (src/day-4/src/main.rs)                             *)

MaxCards == 3
MaxId == 3

\* struct Card
Card(id, winning, guessed) == [id |-> id, winning |-> winning, guessed |-> guessed]

\* the example of the tests
EXAMPLE_CARDS ==
    << 
Card(1, {41, 48, 83, 86, 17}, {83, 86, 6, 31, 17, 9, 48, 53}),
       Card(2, {13, 32, 20, 16, 61}, {61, 30, 68, 82, 17, 32, 24, 19}),
       Card(3, {1, 21, 53, 59, 44}, {69, 82, 63, 72, 16, 21, 14, 1}),
       Card(4, {41, 92, 73, 84, 69}, {59, 84, 76, 51, 58, 5, 54, 83}),
       Card(5, {87, 83, 26, 28, 32}, {88, 30, 70, 12, 93, 22, 82, 36}),
       Card(6, {31, 18, 13, 56, 72}, {74, 77, 10, 23, 35, 67, 36, 11}) >>

\* the cards come with the ids the input gives them, in the order of its
\* lines, and have no, one or two matches
GeneratedCards ==
    UNION { [1..n -> {Card(id, d[1], d[2]) :
                        id \in 1..MaxId,
                        d \in { <<{1, 2}, {3}>>, <<{1}, {1, 3}>>, <<{1, 2}, {1, 2, 3}>> }}] :
              n \in 0..MaxCards }

\* guessed.iter().copied().filter(|guess| winning.contains(guess)).count()
Matches(card) == Cardinality({g \in card.guessed : g \in card.winning})

\* .fold(0, |acc, _| if acc == 0 { 1 } else { acc * 2 }) over n matches
RECURSIVE Points(_)
Points(n) ==
    IF n = 0 THEN 0
    ELSE LET points == Points(n - 1) IN IF points = 0 THEN 1 ELSE points * 2

\* calculate_result(input, puzzle_part) has parsed the cards
Day4Init ==
    /\ d4cards \in GeneratedCards \cup {EXAMPLE_CARDS}
    /\ d4part \in {"One", "Two"}
    /\ d4i = 0
    /\ d4amount = <<>>
    /\ d4sum = 0
    /\ d4result = 0
    /\ d4pc = "parsed"
    /\ OtherDaysIdle(4)

\* part one: the points of the next card are added to the sum
AddPoints ==
    /\ d4pc = "parsed"
    /\ d4part = "One"
    /\ d4i < Len(d4cards)
    /\ d4sum' = d4sum + Points(Matches(d4cards[d4i + 1]))
    /\ d4i' = d4i + 1
    /\ UNCHANGED <<d4cards, d4part, d4amount, d4result, d4pc>>
    /\ OtherDaysUnchanged(4)

\* part one: the sum is the result
Day4FinishOne ==
    /\ d4pc = "parsed"
    /\ d4part = "One"
    /\ d4i = Len(d4cards)
    /\ d4result' = d4sum
    /\ d4pc' = "done"
    /\ UNCHANGED <<d4cards, d4part, d4i, d4amount, d4sum>>
    /\ OtherDaysUnchanged(4)

\* part two: card_amount is collected, one instance for every card id
CollectAmounts ==
    /\ d4pc = "parsed"
    /\ d4part = "Two"
    /\ d4amount' = [id \in {d4cards[j].id : j \in 1..Len(d4cards)} |-> 1]
    /\ d4pc' = "cards"
    /\ UNCHANGED <<d4cards, d4part, d4i, d4sum, d4result>>
    /\ OtherDaysUnchanged(4)

\* for i in 1..=matches: the entry of card.id + i, where there is one, grows
\* by the amount of the card
AddAmount(amounts, card) ==
    [id \in DOMAIN amounts |->
        IF id \in (card.id + 1)..(card.id + Matches(card))
        THEN amounts[id] + amounts[card.id] ELSE amounts[id]]

\* part two: the body of the loop over the cards, for the next card
ProcessCard ==
    /\ d4pc = "cards"
    /\ d4i < Len(d4cards)
    /\ d4amount' = AddAmount(d4amount, d4cards[d4i + 1])
    /\ d4i' = d4i + 1
    /\ UNCHANGED <<d4cards, d4part, d4sum, d4result, d4pc>>
    /\ OtherDaysUnchanged(4)

RECURSIVE SumValues(_)
SumValues(f) ==
    IF DOMAIN f = {} THEN 0
    ELSE LET k == CHOOSE k \in DOMAIN f : TRUE
         IN  f[k] + SumValues([j \in DOMAIN f \ {k} |-> f[j]])

\* part two: card_amount.values().sum()
Day4FinishTwo ==
    /\ d4pc = "cards"
    /\ d4i = Len(d4cards)
    /\ d4result' = SumValues(d4amount)
    /\ d4pc' = "done"
    /\ UNCHANGED <<d4cards, d4part, d4i, d4amount, d4sum>>
    /\ OtherDaysUnchanged(4)

Day4Next ==
    \/ AddPoints
    \/ Day4FinishOne
    \/ CollectAmounts
    \/ ProcessCard
    \/ Day4FinishTwo

Day4Spec == Day4Init /\ [][Day4Next]_vars

\* the sum of the instance counts of the card ids in S
RECURSIVE TotalOf(_, _)
TotalOf(amounts, S) ==
    IF S = {} THEN 0
    ELSE LET id == CHOOSE id \in S : TRUE
         IN  amounts[id] + TotalOf(amounts, S \ {id})

\* C14: in part two every card starts with one instance; the cards are taken
\* in input order and a card with m matches adds its instance count to the
\* cards id+1 .. id+m that exist; the result is the total of the instances
\* when the cards are used up (30 for the example); and the instance count
\* of a card is final by the time the card is processed.
C14_CountsFinalWhenProcessed ==
    /\ [](d4pc = "cards" /\ d4i = 0 =>
            /\ DOMAIN d4amount = {d4cards[j].id : j \in 1..Len(d4cards)}
            /\ \A id \in DOMAIN d4amount : d4amount[id] = 1)
    /\ [][d4pc = "cards" /\ d4i' = d4i + 1 =>
            LET card == d4cards[d4i + 1]
                m == Cardinality(card.winning \cap card.guessed)
            IN  /\ DOMAIN d4amount' = DOMAIN d4amount
                /\ \A id \in DOMAIN d4amount :
                     d4amount'[id] =
                        IF \E k \in 1..m : id = card.id + k
                        THEN d4amount[id] + d4amount[card.id]
                        ELSE d4amount[id]]_vars
    /\ [](d4pc = "done" /\ d4part = "Two" =>
            /\ d4result = TotalOf(d4amount, DOMAIN d4amount)
            /\ d4cards = EXAMPLE_CARDS => d4result = 30)
    /\ [][d4pc = "cards" =>
            \A j \in 1..d4i' : d4amount'[d4cards[j].id] = d4amount[d4cards[j].id]]_vars

---------------------------------------------------------------------------
(* Day 9: extrapolating histories (src/day-9/src/main.rs)                  *)

MaxHistoryLen == 4
MaxValue == 2

\* the histories of the tests
EXAMPLE_HISTORIES ==
    << <<0, 3, 6, 9, 12, 15>>, <<1, 3, 6, 10, 15, 21>>, <<10, 13, 16, 21, 30, 45>> >>

EXAMPLE_DECREASING ==
    <<6, 1, -4, -9, -14, -19, -24, -29, -34, -39, -44, -49, -54,
      -59, -64, -69, -74, -79, -84, -89, -94>>

\* the inputs: a generated history of one value or more, alone or before a
\* history of the tests
Day9Inputs ==
    LET generated == {h \in SeqsUpTo((0 - MaxValue)..MaxValue, MaxHistoryLen) : h # <<>>}
    IN  {<<h>> : h \in generated}
        \cup {<<h, e>> : h \in generated, e \in {EXAMPLE_HISTORIES[1], <<1, 2, 4>>}}
        \cup {EXAMPLE_HISTORIES, <<EXAMPLE_DECREASING>>, <<>>}

\* row.iter().copied().map_windows(|[a, b]| *b - *a).collect()
MapWindows_Reversed(row) == [i \in 1..(Len(row) - 1) |-> row[i] - row[i + 1]]
MapWindows(row) == [i \in 1..(Len(row) - 1) |-> row[i + 1] - row[i]]

\* row.last().copied().unwrap_or_default(), row.first().copied().unwrap_or_default()
LastOrDefault(row) == IF row = <<>> THEN 0 ELSE row[Len(row)]
FirstOrDefault(row) == IF row = <<>> THEN 0 ELSE row[1]

\* .iter().rev().map(last).fold(0, |acc, x| x + acc), from the last of rows back
RECURSIVE FoldNext(_, _)
FoldNext(rows, k) ==
    IF k > Len(rows) THEN 0 ELSE LastOrDefault(rows[k]) + FoldNext(rows, k + 1)

\* .iter().rev().map(first).fold(0, |acc, x| x - acc), from the last of rows back
RECURSIVE FoldPrev(_, _)
FoldPrev(rows, k) ==
    IF k > Len(rows) THEN 0 ELSE FirstOrDefault(rows[k]) - FoldPrev(rows, k + 1)

\* calculate_result(input, puzzle_part) has parsed the histories
Day9Init ==
    /\ d9histories \in Day9Inputs
    /\ d9part \in {"One", "Two"}
    /\ d9i = 0
    /\ d9row = <<>>
    /\ d9rows = <<>>
    /\ d9value = 0
    /\ d9sum = 0
    /\ d9result = 0
    /\ d9pc = "next"
    /\ OtherDaysIdle(9)

\* the next history is extrapolated: calculate_diff starts from its row
StartDiff ==
    /\ d9pc = "next"
    /\ d9i < Len(d9histories)
    /\ d9i' = d9i + 1
    /\ d9row' = d9histories[d9i + 1]
    /\ d9rows' = <<d9histories[d9i + 1]>>
    /\ d9pc' = "diff"
    /\ UNCHANGED <<d9histories, d9part, d9value, d9sum, d9result>>
    /\ OtherDaysUnchanged(9)

\* a turn of the while loop: the row has a value other than 0
DiffStep ==
    /\ d9pc = "diff"
    /\ \E k \in 1..Len(d9row) : d9row[k] # 0
    /\ d9row' = MapWindows(d9row)
    /\ d9rows' = Append(d9rows, MapWindows(d9row))
    /\ UNCHANGED <<d9histories, d9part, d9i, d9value, d9sum, d9result, d9pc>>
    /\ OtherDaysUnchanged(9)

\* the loop ends; the rows are folded into the value of the part
Extrapolate ==
    /\ d9pc = "diff"
    /\ \A k \in 1..Len(d9row) : d9row[k] = 0
    /\ d9value' = IF d9part = "One" THEN FoldNext(d9rows, 1) ELSE FoldPrev(d9rows, 1)
    /\ d9pc' = "extrapolated"
    /\ UNCHANGED <<d9histories, d9part, d9i, d9row, d9rows, d9sum, d9result>>
    /\ OtherDaysUnchanged(9)

\* sum() takes the value in
AddValue ==
    /\ d9pc = "extrapolated"
    /\ d9sum' = d9sum + d9value
    /\ d9pc' = "next"
    /\ UNCHANGED <<d9histories, d9part, d9i, d9row, d9rows, d9value, d9result>>
    /\ OtherDaysUnchanged(9)

\* the histories are used up
Day9Finish ==
    /\ d9pc = "next"
    /\ d9i = Len(d9histories)
    /\ d9result' = d9sum
    /\ d9pc' = "done"
    /\ UNCHANGED <<d9histories, d9part, d9i, d9row, d9rows, d9value, d9sum>>
    /\ OtherDaysUnchanged(9)

Day9Next ==
    \/ StartDiff
    \/ DiffStep
    \/ Extrapolate
    \/ AddValue
    \/ Day9Finish

Day9Spec == Day9Init /\ [][Day9Next]_vars

\* the row of differences of neighbours
DifferenceRow(row) == [i \in 1..(Len(row) - 1) |-> row[i + 1] - row[i]]

AllZero(row) == \A i \in DOMAIN row : row[i] = 0

\* the last elements of row and of its difference rows down to the all-zero
\* row, summed
RECURSIVE SumOfLasts(_)
SumOfLasts(row) ==
    IF AllZero(row) THEN 0
    ELSE row[Len(row)] + SumOfLasts(DifferenceRow(row))

IsProgression(h) ==
    /\ Len(h) >= 2
    /\ \A i \in 1..(Len(h) - 1) : h[i + 1] - h[i] = h[2] - h[1]

RECURSIVE SumOfNext(_, _)
SumOfNext(hs, k) ==
    IF k > Len(hs) THEN 0 ELSE SumOfLasts(hs[k]) + SumOfNext(hs, k + 1)

\* C15: extrapolate_next_value returns the sum of the last elements of the
\* history and of its difference rows down to the all-zero row; for an
\* arithmetic progression of two or more elements that is the last element
\* plus the common difference (18 for 0 3 6 9 12 15, -99 for the decreasing
\* example); part one returns the sum of the values of all histories.
C15_NextValueIsSumOfLasts ==
    /\ d9pc = "extrapolated" /\ d9part = "One" =>
         LET h == d9histories[d9i] IN
         /\ d9value = SumOfLasts(h)
         /\ IsProgression(h) => d9value = h[Len(h)] + (h[2] - h[1])
         /\ h = EXAMPLE_HISTORIES[1] => d9value = 18
         /\ h = EXAMPLE_DECREASING => d9value = 0 - 99
    /\ d9pc = "done" /\ d9part = "One" =>
         d9result = SumOfNext(d9histories, 1)

\* part one is done on the two progressions 2 0 -2 and 0 3 6 9 12 15
C15_Witness ==
    /\ d9pc = "done"
    /\ d9part = "One"
    /\ d9histories = << <<2, 0, 0 - 2>>, EXAMPLE_HISTORIES[1] >>
    /\ d9result = 14

---------------------------------------------------------------------------
(* Day 2: cube games (src/day-2/src/main.rs)                               *)

MaxCubeSets == 2
MaxGameId == 2

\* the cubes a game of part one may show at most
RedLimit == 12
GreenLimit == 13
BlueLimit == 14

\* struct CubeSet, struct Game
CubeSet(r, g, b) == [red |-> r, green |-> g, blue |-> b]
Game(id, cube_sets) == [id |-> id, cube_sets |-> cube_sets]

\* CubeSet::empty
empty == CubeSet(0, 0, 0)

Max2(a, b) == IF a >= b THEN a ELSE b

\* CubeSet::componentwise_max
componentwise_max(lhs, rhs) ==
    CubeSet(Max2(lhs.red, rhs.red), Max2(lhs.green, rhs.green), Max2(lhs.blue, rhs.blue))

\* CubeSet::power
power(c) == c.red * c.green * c.blue

\* the games of the tests
EXAMPLE_GAMES ==
    << Game(1, << CubeSet(4, 0, 3), CubeSet(1, 2, 6), CubeSet(0, 2, 0) >>),
       Game(2, << CubeSet(0, 2, 1), CubeSet(1, 3, 4), CubeSet(0, 1, 1) >>),
       Game(3, << CubeSet(20, 8, 6), CubeSet(4, 13, 5), CubeSet(1, 5, 0) >>),
       Game(4, << CubeSet(3, 1, 6), CubeSet(6, 3, 0), CubeSet(14, 3, 15) >>),
       Game(5, << CubeSet(6, 3, 1), CubeSet(1, 2, 2) >>) >>

\* the inputs: a generated game, alone or before a game of the tests; the
\* cube sets of a generated game are within the limits, on them, or one
\* beyond one of them
Day2Inputs ==
    LET drawn == { CubeSet(0, 2, 0), CubeSet(4, 0, 3), CubeSet(12, 13, 14),
                   CubeSet(13, 1, 1), CubeSet(1, 14, 2), CubeSet(2, 1, 15) }
        generated == { Game(id, sets) :
                         id \in 1..MaxGameId,
                         sets \in {c \in SeqsUpTo(drawn, MaxCubeSets) : c # <<>>} }
    IN  {<<g>> : g \in generated}
        \cup {<<g, e>> : g \in generated, e \in {EXAMPLE_GAMES[3], EXAMPLE_GAMES[5]}}
        \cup {EXAMPLE_GAMES, <<>>}

\* calculate_result(input, puzzle_part) has parsed the games
Day2Init ==
    /\ d2games \in Day2Inputs
    /\ d2part \in {"One", "Two"}
    /\ d2i = 0
    /\ d2sum = 0
    /\ d2result = 0
    /\ d2pc = "games"
    /\ OtherDaysIdle(2)

\* game.cube_sets.iter().all(..)
Possible(game) ==
    \A k \in 1..Len(game.cube_sets) :
        /\ game.cube_sets[k].red <= RedLimit
        /\ game.cube_sets[k].green <= GreenLimit
        /\ game.cube_sets[k].blue <= BlueLimit

\* part one: the next game passes the filter, its id is added
AddGameId ==
    /\ d2pc = "games"
    /\ d2part = "One"
    /\ d2i < Len(d2games)
    /\ Possible(d2games[d2i + 1])
    /\ d2sum' = d2sum + d2games[d2i + 1].id
    /\ d2i' = d2i + 1
    /\ UNCHANGED <<d2games, d2part, d2result, d2pc>>
    /\ OtherDaysUnchanged(2)

\* part one: the next game does not pass the filter
SkipGame ==
    /\ d2pc = "games"
    /\ d2part = "One"
    /\ d2i < Len(d2games)
    /\ ~Possible(d2games[d2i + 1])
    /\ d2i' = d2i + 1
    /\ UNCHANGED <<d2games, d2part, d2sum, d2result, d2pc>>
    /\ OtherDaysUnchanged(2)

\* .fold(CubeSet::empty(), CubeSet::componentwise_max) from the k-th set on
RECURSIVE FoldMax(_, _, _)
FoldMax(sets, k, max) ==
    IF k > Len(sets) THEN max
    ELSE FoldMax(sets, k + 1, componentwise_max(max, sets[k]))

\* part two: the power of the next game is added
AddPower ==
    /\ d2pc = "games"
    /\ d2part = "Two"
    /\ d2i < Len(d2games)
    /\ d2sum' = d2sum + power(FoldMax(d2games[d2i + 1].cube_sets, 1, empty))
    /\ d2i' = d2i + 1
    /\ UNCHANGED <<d2games, d2part, d2result, d2pc>>
    /\ OtherDaysUnchanged(2)

\* the games are used up
Day2Finish ==
    /\ d2pc = "games"
    /\ d2i = Len(d2games)
    /\ d2result' = d2sum
    /\ d2pc' = "done"
    /\ UNCHANGED <<d2games, d2part, d2i, d2sum>>
    /\ OtherDaysUnchanged(2)

Day2Next ==
    \/ AddGameId
    \/ SkipGame
    \/ AddPower
    \/ Day2Finish

Day2Spec == Day2Init /\ [][Day2Next]_vars

\* the most cubes of a colour any set of the game shows
MostOf(game, colour) ==
    LET shown == {game.cube_sets[k][colour] : k \in 1..Len(game.cube_sets)} \cup {0}
    IN  CHOOSE m \in shown : \A n \in shown : m >= n

RECURSIVE SumOfPowers(_, _)
SumOfPowers(games, k) ==
    IF k > Len(games) THEN 0
    ELSE MostOf(games[k], "red") * MostOf(games[k], "green") * MostOf(games[k], "blue")
         + SumOfPowers(games, k + 1)

\* C16: called with the part flag One, as test_calculate_result_puzzle_part_2
\* calls it, calculate_result returns on the five games of the example 2286,
\* the sum over the games of the power red * green * blue of the
\* componentwise maximum of the game's cube sets.
C16_PartOneReturnsPowerSum ==
    d2pc = "done" /\ d2part = "One" /\ d2games = EXAMPLE_GAMES =>
        /\ d2result = 2286
        /\ d2result = SumOfPowers(d2games, 1)

---------------------------------------------------------------------------
(* Day 6: boat races (src/day-6/src/main.rs)                               *)

MaxTimeChars == 2
MaxRecordChars == 3

\* struct Race
Race(time, record) == [time |-> time, record |-> record]

Digits == <<"0", "1", "2", "3", "4", "5", "6", "7", "8", "9">>

IsDigit(c) == \E d \in 1..10 : Digits[d] = c

\* c.to_digit(10) of a digit
ToDigit(c) == (CHOOSE d \in 1..10 : Digits[d] = c) - 1

\* line.split(" "): the pieces between the spaces, empty ones too
RECURSIVE SplitBlank(_, _)
SplitBlank(l, piece) ==
    IF l = <<>> THEN <<piece>>
    ELSE IF Head(l) = " " THEN <<piece>> \o SplitBlank(Tail(l), <<>>)
    ELSE SplitBlank(Tail(l), Append(piece, Head(l)))

\* u64::from_str
RECURSIVE FoldDigits(_, _)
FoldDigits(str, n) ==
    IF str = <<>> THEN n ELSE FoldDigits(Tail(str), n * 10 + ToDigit(Head(str)))

ParseU64(str) ==
    IF str # <<>> /\ \A k \in 1..Len(str) : IsDigit(str[k])
    THEN [ok |-> TRUE, value |-> FoldDigits(str, 0)]
    ELSE [ok |-> FALSE, value |-> 0]

\* line_iter: the pieces after the first that are not empty, each parsed
LineIter(l) ==
    LET pieces == SplitBlank(l, <<>>)
        kept == SelectSeq(SubSeq(pieces, 2, Len(pieces)), LAMBDA str : str # <<>>)
    IN  [k \in 1..Len(kept) |-> ParseU64(kept[k])]

\* parse_input_part_1: the zipped numbers of the two lines, or the first error
ParseInputPart1(lines) ==
    LET times == LineIter(lines[1])
        records == LineIter(lines[2])
        n == IF Len(times) <= Len(records) THEN Len(times) ELSE Len(records)
    IN  IF \E k \in 1..n : ~times[k].ok \/ ~records[k].ok
        THEN [ok |-> FALSE, value |-> <<>>]
        ELSE [ok |-> TRUE,
              value |-> [k \in 1..n |-> Race(times[k].value, records[k].value)]]

\* parse_line of parse_input_part_2: of what follows the first blank, the
\* digits fold into one number
RECURSIVE AfterBlank(_)
AfterBlank(l) ==
    IF l = <<>> THEN <<>>
    ELSE IF Head(l) = " " THEN Tail(l)
    ELSE AfterBlank(Tail(l))

ParseLine(l) == FoldDigits(SelectSeq(AfterBlank(l), IsDigit), 0)

\* parse_input_part_2
ParseInputPart2(lines) == Race(ParseLine(lines[1]), ParseLine(lines[2]))

\* Race::calculate_distance
calculate_distance(race, time_pressed) ==
    IF race.time <= time_pressed THEN 0
    ELSE LET speed == time_pressed
             travel_time == race.time - time_pressed
         IN  speed * travel_time

\* the filter of Race::winning_possibilities
Beats_OrEqual(distance, record) == distance >= record
Beats(distance, record) == distance > record

\* Race::winning_possibilities
winning_possibilities(race) ==
    Cardinality({time_pressed \in 1..(race.time - 1) :
                    Beats(calculate_distance(race, time_pressed), race.record)})

\* the example of the tests
EXAMPLE_RACES ==
    << <<"T", "i", "m", "e", ":", " ", " ", " ", " ", " ", " ", "7", " ", " ", "1", "5", " ", " ", " ", "3", "0">>,
       <<"D", "i", "s", "t", "a", "n", "c", "e", ":", " ", " ", "9", " ", " ", "4", "0", " ", " ", "2", "0", "0">> >>

\* the inputs: two lines, each a label, a blank, and a few characters
Day6Inputs ==
    LET chars == {"1", "7", " ", "x"}
        label == <<"T", ":", " ">>
    IN  { <<label \o t, label \o r>> : t \in SeqsUpTo(chars, MaxTimeChars),
                                       r \in SeqsUpTo(chars, MaxRecordChars) }
        \cup {EXAMPLE_RACES}

\* calculate_result(input, puzzle_part) is called on two lines
Day6Init ==
    /\ d6lines \in Day6Inputs
    /\ d6part \in {"One", "Two"}
    /\ d6races = <<>>
    /\ d6i = 0
    /\ d6acc = NoneOpt
    /\ d6result = 0
    /\ d6pc = "input"
    /\ OtherDaysIdle(6)

\* part one: parse_input_part_1 yields the races, or its error is returned
ParseRaces ==
    /\ d6pc = "input"
    /\ d6part = "One"
    /\ LET parsed == ParseInputPart1(d6lines) IN
         /\ d6races' = parsed.value
         /\ d6pc' = IF parsed.ok THEN "races" ELSE "error"
    /\ UNCHANGED <<d6lines, d6part, d6i, d6acc, d6result>>
    /\ OtherDaysUnchanged(6)

\* part one: reduce takes the possibilities of the next race in
ReduceRace ==
    /\ d6pc = "races"
    /\ d6i < Len(d6races)
    /\ LET x == winning_possibilities(d6races[d6i + 1]) IN
         d6acc' = IF d6acc.some THEN Some(d6acc.value * x) ELSE Some(x)
    /\ d6i' = d6i + 1
    /\ UNCHANGED <<d6lines, d6part, d6races, d6result, d6pc>>
    /\ OtherDaysUnchanged(6)

\* part one: the races are used up: .unwrap_or(0)
Day6FinishOne ==
    /\ d6pc = "races"
    /\ d6i = Len(d6races)
    /\ d6result' = IF d6acc.some THEN d6acc.value ELSE 0
    /\ d6pc' = "done"
    /\ UNCHANGED <<d6lines, d6part, d6races, d6i, d6acc>>
    /\ OtherDaysUnchanged(6)

\* part two: parse_input_part_2 yields the one race
ParseRace ==
    /\ d6pc = "input"
    /\ d6part = "Two"
    /\ d6races' = <<ParseInputPart2(d6lines)>>
    /\ d6pc' = "race"
    /\ UNCHANGED <<d6lines, d6part, d6i, d6acc, d6result>>
    /\ OtherDaysUnchanged(6)

\* part two: the possibilities of the race are the result
Day6FinishTwo ==
    /\ d6pc = "race"
    /\ d6result' = winning_possibilities(d6races[1])
    /\ d6pc' = "done"
    /\ UNCHANGED <<d6lines, d6part, d6races, d6i, d6acc>>
    /\ OtherDaysUnchanged(6)

Day6Next ==
    \/ ParseRaces
    \/ ReduceRace
    \/ Day6FinishOne
    \/ ParseRace
    \/ Day6FinishTwo

Day6Spec == Day6Init /\ [][Day6Next]_vars

\* the number of hold times t, 1 <= t < time, that beat the record
Wins(time, record) ==
    Cardinality({t \in 1..(time - 1) : t * (time - t) > record})

RECURSIVE ProductOfWins(_, _)
ProductOfWins(races, k) ==
    IF k > Len(races) THEN 1
    ELSE Wins(races[k].time, races[k].record) * ProductOfWins(races, k + 1)

\* the number the digits of the line spell, one after the other
RECURSIVE Concatenated(_, _)
Concatenated(l, k) ==
    IF k = 0 THEN 0
    ELSE IF \E d \in 0..9 : Digits[d + 1] = l[k]
    THEN Concatenated(l, k - 1) * 10 + (CHOOSE d \in 0..9 : Digits[d + 1] = l[k])
    ELSE Concatenated(l, k - 1)

\* C17: winning_possibilities counts the hold times t with 1 <= t < time and
\* t * (time - t) > record; part one returns the product of the counts of
\* the races (288 for the example, 0 without a race); part two returns the
\* count of the one race whose time and record the digits of each line
\* spell (71503 for the example).
C17_CountsWinningHoldTimes ==
    /\ d6pc = "races" /\ d6i > 0 =>
         d6acc = Some(ProductOfWins(SubSeq(d6races, 1, d6i), 1))
    /\ d6pc = "done" /\ d6part = "One" =>
         /\ d6races = <<>> => d6result = 0
         /\ d6races # <<>> => d6result = ProductOfWins(d6races, 1)
         /\ d6lines = EXAMPLE_RACES => d6result = 288
    /\ d6pc = "done" /\ d6part = "Two" =>
         /\ d6result = Wins(Concatenated(d6lines[1], Len(d6lines[1])),
                            Concatenated(d6lines[2], Len(d6lines[2])))
         /\ d6lines = EXAMPLE_RACES => d6result = 71503

\* part one is done on the races of the example, the last of which is tied
\* by the hold times 10 and 20
C17_Witness ==
    /\ d6pc = "done"
    /\ d6part = "One"
    /\ d6lines = EXAMPLE_RACES
    /\ d6races = <<Race(7, 9), Race(15, 40), Race(30, 200)>>
    /\ d6result = 288

---------------------------------------------------------------------------
(* Day 8: the replay of the instructions, take_step, starts and targets    *)

\* the node the first k instructions of the replay lead to from s
Reached(s, k) == IF k = 0 THEN s ELSE Path(s, k)[k]

\* C18: over a non-empty instruction sequence of length n the instruction of
\* step k is the ((k - 1) mod n)-th, counted from 0, so the walk wraps from
\* the last instruction to the first; in every state of the walk the counter
\* is the number of instructions consumed and the current node is the one
\* the instructions consumed lead to from start (LLR on the circular example
\* reaches ZZZ at step 6).
C18_ReplayIsCyclic ==
    /\ [](pc \in {"walk", "walked"} /\ Len(instructions) > 0 =>
            /\ pos = (steps % Len(instructions)) + 1
            /\ cur = Reached(start, steps))
    /\ [][pc = "walk" /\ Len(instructions) > 0 /\ steps' # steps =>
            /\ steps' = steps + 1
            /\ cur \in DOMAIN network
            /\ LET used == instructions[((steps' - 1) % Len(instructions)) + 1] IN
                 cur' = IF used = "Left" THEN network[cur].left ELSE network[cur].right]_vars
    /\ [](/\ pc = "walked"
          /\ network = EXAMPLE_CIRCULAR_PART_1.network
          /\ instructions = <<"Left", "Left", "Right">>
          /\ start = AAA
          /\ targets = {ZZZ}
          => steps = 6 /\ cur = ZZZ)

\* the walk of the circular example has wrapped once and stands on AAA again
C18_Witness ==
    /\ pc = "walk"
    /\ network = EXAMPLE_CIRCULAR_PART_1.network
    /\ instructions = <<"Left", "Left", "Right">>
    /\ start = AAA
    /\ targets = {ZZZ}
    /\ steps = 4
    /\ pos = 2
    /\ cur = AAA

\* C19: take_step yields no result when the current id has no entry in the
\* network; when it has one it yields the entry's left id for Left and its
\* right id for Right, whether or not that id has an entry itself; the
\* network is left as it is.
C19_TakeStepFollowsEntry ==
    /\ [](pc = "walk" /\ Len(instructions) > 0 =>
            LET r == take_step(network, cur, instructions[pos]) IN
            /\ cur \notin DOMAIN network => r = None
            /\ cur \in DOMAIN network /\ instructions[pos] = "Left" => r = network[cur].left
            /\ cur \in DOMAIN network /\ instructions[pos] = "Right" => r = network[cur].right)
    /\ [][pc = "walk" /\ Len(instructions) > 0 /\ steps < MaxSteps =>
            /\ network' = network
            /\ cur \notin DOMAIN network => pc' = "panic" /\ cur' = cur
            /\ cur \in DOMAIN network =>
                 cur' = IF instructions[pos] = "Left" THEN network[cur].left
                        ELSE network[cur].right]_vars

\* a Right step from AAA has led to an id without an entry
C19_Witness ==
    /\ pc = "walk"
    /\ steps = 1
    /\ instructions[1] = "Right"
    /\ start = AAA
    /\ start \in DOMAIN network
    /\ cur = network[AAA].right
    /\ cur # network[AAA].left
    /\ cur \notin DOMAIN network

\* C20: part One walks from the one start AAA to the target set {ZZZ}; part
\* Two starts from exactly the ids with a line of their own that end with A
\* and takes as targets exactly the ids with a line of their own that end
\* with Z, so an id that the lines only refer to is neither.
C20_StartsAndTargets ==
    /\ part = "One" /\ pc \in {"walk", "walked", "panic", "done"} =>
         /\ starts = << <<"A", "A", "A">> >>
         /\ start = <<"A", "A", "A">>
         /\ targets = { <<"Z", "Z", "Z">> }
    /\ part = "Two" /\ pc \in {"fold", "walk", "walked", "panic", "done"} =>
         /\ Range(starts) = {id \in DOMAIN network : id[3] = "A"}
         /\ Len(starts) = Cardinality(Range(starts))
         /\ targets = {id \in DOMAIN network : id[3] = "Z"}
         /\ pc \in {"walk", "walked", "panic"} => start \in Range(starts)
         /\ \A k \in DOMAIN network : \A id \in {network[k].left, network[k].right} :
              id \notin DOMAIN network => id \notin Range(starts) /\ id \notin targets

\* part Two has picked its starts in a network whose lines refer to ZZZ
\* without there being a line of ZZZ
C20_Witness ==
    /\ part = "Two"
    /\ pc = "fold"
    /\ DOMAIN network = {AAA, BBA}
    /\ network[AAA].left = ZZZ
    /\ starts = <<BBA, AAA>>
    /\ targets = {}

---------------------------------------------------------------------------
(* Day 7: the hand type with wildcards                                     *)

\* how many kinds of card the hand holds n times
Groups(cards, n) ==
    Cardinality({k \in Range(cards) : Cardinality({i \in 1..5 : cards[i] = k}) = n})

\* the type the multiset of the card counts stands for
TypeOfCounts(cards) ==
    CASE Groups(cards, 5) = 1 -> "FiveOfAKind"
      [] Groups(cards, 4) = 1 -> "FourOfAKind"
      [] Groups(cards, 3) = 1 /\ Groups(cards, 2) = 1 -> "FullHouse"
      [] Groups(cards, 3) = 1 /\ Groups(cards, 1) = 2 -> "ThreeOfAKind"
      [] Groups(cards, 2) = 2 -> "TwoPair"
      [] Groups(cards, 2) = 1 /\ Groups(cards, 1) = 3 -> "OnePair"
      [] Groups(cards, 1) = 5 -> "HighCard"

\* the cards a Joker of the hand is replaced with: the type looks at the
\* counts only, so two kinds the hand may lack stand for every kind it lacks
Stand_ins(cards) == (Range(cards) \cup {"Ace", "King"}) \ {"Joker"}

\* the hands that come of replacing every Joker with a card that is none
Replaced(cards) ==
    { [i \in 1..5 |-> IF cards[i] = "Joker" THEN r[i] ELSE cards[i]] :
        r \in [{i \in 1..5 : cards[i] = "Joker"} -> Stand_ins(cards)] }

\* the strongest type a replacement of the Jokers gives
Strongest(cards) ==
    LET types == {TypeOfCounts(h) : h \in Replaced(cards)}
    IN  CHOOSE t \in types :
          \A u \in types : IndexIn(HandTypes, t) >= IndexIn(HandTypes, u)

\* C21: the type of a hand of five cards is the strongest type that
\* replacing each Joker with a card that is no Joker gives, five Jokers
\* being five of a kind; without a Joker it is the type of the multiset of
\* the card counts: 5, 4+1, 3+2, 3+1+1, 2+2+1, 2+1+1+1, all distinct.
C21_JokersMakeStrongestType ==
    d7pc = "compared" =>
        \A i \in 1..3 :
            LET cards == d7hands[i].cards IN
            /\ hand_type(cards) = Strongest(cards)
            /\ "Joker" \notin Range(cards) => hand_type(cards) = TypeOfCounts(cards)
            /\ (\A k \in 1..5 : cards[k] = "Joker") => hand_type(cards) = "FiveOfAKind"
            /\ d7part = "Two" /\ d7input[i].cards = <<"K", "T", "J", "J", "T">>
                 => hand_type(cards) = "FourOfAKind"
            /\ d7part = "One" /\ d7input[i].cards = <<"2", "3", "4", "3", "2">>
                 => hand_type(cards) = "TwoPair"

\* in part Two KTJJT is four of a kind by its two Jokers, JJJJJ five of a
\* kind, and 23432 without a Joker two pairs
C21_Witness ==
    /\ d7pc = "compared"
    /\ d7part = "Two"
    /\ d7input[1].cards = <<"K", "T", "J", "J", "T">>
    /\ d7input[2].cards = <<"J", "J", "J", "J", "J">>
    /\ d7input[3].cards = <<"2", "3", "4", "3", "2">>
    /\ hand_type(d7hands[1].cards) = "FourOfAKind"
    /\ hand_type(d7hands[2].cards) = "FiveOfAKind"
    /\ hand_type(d7hands[3].cards) = "TwoPair"

---------------------------------------------------------------------------
(* Day 3: the engine schematic (src/day-3/src/main.rs)                     *)

MaxSchematicWidth == 3

\* Object::Number(Number {..}), Object::Symbol(Symbol {..})
NumberObject(x, y, width, num) ==
    [kind |-> "Number", x |-> x, y |-> y, width |-> width, num |-> num]
SymbolObject(x, y, c) == [kind |-> "Symbol", x |-> x, y |-> y, symbol |-> c]

\* ParseState
Other == [number |-> FALSE, num |-> 0, width |-> 0]
InNumber(num, width) == [number |-> TRUE, num |-> num, width |-> width]

\* the examples of the tests
EXAMPLE_SCHEMATIC ==
    << <<"4", "6", "7", ".", ".", "1", "1", "4", ".", ".">>,
       <<".", ".", ".", "*", ".", ".", ".", ".", ".", ".">>,
       <<".", ".", "3", "5", ".", ".", "6", "3", "3", ".">>,
       <<".", ".", ".", ".", ".", ".", "#", ".", ".", ".">>,
       <<"6", "1", "7", "*", ".", ".", ".", ".", ".", ".">>,
       <<".", ".", ".", ".", ".", "+", ".", "5", "8", ".">>,
       <<".", ".", "5", "9", "2", ".", ".", ".", ".", ".">>,
       <<".", ".", ".", ".", ".", ".", "7", "5", "5", ".">>,
       <<".", ".", ".", "$", ".", "*", ".", ".", ".", ".">>,
       <<".", "6", "6", "4", ".", "5", "9", "8", ".", ".">> >>

EXAMPLE_ADJACENT ==
    << <<"*", ".", ".", ".", ".", ".", "/">>,
       <<".", "4", "6", "7", "+", ".", "/">>,
       <<".", ".", ".", ".", "-", ".", "/">> >>

EXAMPLE_PARSE ==
    << <<"4", "6", "7", ".", ".", "1", "1", "4", ".", ".">>,
       <<".", ".", ".", "*", ".", ".", ".", ".", ".", "1">> >>

\* the inputs: a line of a few characters, a short line below it, and at
\* times a third line, two rows away from the first
Day3Inputs ==
    { <<a, b>> \o c : a \in SeqsUpTo({"1", "2", ".", "*"}, MaxSchematicWidth),
                      b \in SeqsUpTo({"3", ".", "#"}, 2),
                      c \in {<<>>, << <<"*">> >>, << <<".", "4">> >>} }
    \cup {EXAMPLE_SCHEMATIC, EXAMPLE_PARSE, EXAMPLE_ADJACENT, <<>>}

\* calculate_result(input, puzzle_part) is called: Schematic::from_str starts
Day3Init ==
    /\ d3lines \in Day3Inputs
    /\ d3part \in {"One", "Two"}
    /\ d3y = 0
    /\ d3x = 0
    /\ d3state = Other
    /\ d3parsed = <<>>
    /\ d3objects = <<>>
    /\ d3i = 0
    /\ d3adjacent = <<>>
    /\ d3sum = 0
    /\ d3result = 0
    /\ d3pc = "lines"
    /\ OtherDaysIdle(3)

\* what the closure of the fold pushes for the character c at column x
Pushed_NoFlush(state, x, y, c) ==
    IF IsDigit(c) THEN <<>>
    ELSE (IF state.number /\ x < Len(d3lines[y + 1])
          THEN <<NumberObject(x - state.width, y, state.width, state.num)>> ELSE <<>>)
         \o (IF c # "." THEN <<SymbolObject(x, y, c)>> ELSE <<>>)

Pushed(state, x, y, c) ==
    IF IsDigit(c) THEN <<>>
    ELSE (IF state.number
          THEN <<NumberObject(x - state.width, y, state.width, state.num)>> ELSE <<>>)
         \o (IF c # "." THEN <<SymbolObject(x, y, c)>> ELSE <<>>)

\* the parse state the closure of the fold yields
NextState(state, c) ==
    IF IsDigit(c)
    THEN IF state.number
         THEN InNumber(state.num * 10 + ToDigit(c), state.width + 1)
         ELSE InNumber(ToDigit(c), 1)
    ELSE Other

\* a turn of the fold: the next character of the line, or the '.' chained
\* to the line
ScanChar ==
    /\ d3pc = "lines"
    /\ d3y < Len(d3lines)
    /\ d3x <= Len(d3lines[d3y + 1])
    /\ LET l == d3lines[d3y + 1]
           c == IF d3x < Len(l) THEN l[d3x + 1] ELSE "."
       IN  /\ d3parsed' = d3parsed \o Pushed(d3state, d3x, d3y, c)
           /\ d3state' = NextState(d3state, c)
    /\ d3x' = d3x + 1
    /\ UNCHANGED <<d3lines, d3part, d3y, d3objects, d3i, d3adjacent, d3sum, d3result, d3pc>>
    /\ OtherDaysUnchanged(3)

\* the fold of the line is over: flat_map hands on what it parsed
EndLine ==
    /\ d3pc = "lines"
    /\ d3y < Len(d3lines)
    /\ d3x > Len(d3lines[d3y + 1])
    /\ d3objects' = d3objects \o d3parsed
    /\ d3parsed' = <<>>
    /\ d3state' = Other
    /\ d3x' = 0
    /\ d3y' = d3y + 1
    /\ UNCHANGED <<d3lines, d3part, d3i, d3adjacent, d3sum, d3result, d3pc>>
    /\ OtherDaysUnchanged(3)

\* the lines are used up: Ok(Schematic { objects })
EndParse ==
    /\ d3pc = "lines"
    /\ d3y = Len(d3lines)
    /\ d3pc' = "parsed"
    /\ UNCHANGED <<d3lines, d3part, d3y, d3x, d3state, d3parsed, d3objects, d3i,
                   d3adjacent, d3sum, d3result>>
    /\ OtherDaysUnchanged(3)

\* Schematic::numbers, Schematic::symbols
numbers(objects) == SelectSeq(objects, LAMBDA o : o.kind = "Number")
symbols(objects) == SelectSeq(objects, LAMBDA o : o.kind = "Symbol")

Abs(n) == IF n < 0 THEN 0 - n ELSE n

adjacent_symbols_Inside(objects, num) ==
    SelectSeq(symbols(objects),
              LAMBDA sym : /\ Abs(sym.y - num.y) <= 1
                           /\ sym.x >= num.x - 1
                           /\ sym.x < num.x + num.width)

\* Schematic::adjacent_symbols
adjacent_symbols(objects, num) ==
    SelectSeq(symbols(objects),
              LAMBDA sym : /\ Abs(sym.y - num.y) <= 1
                           /\ sym.x >= num.x - 1
                           /\ sym.x <= num.x + num.width)

\* part one: the next number passes the filter or not, and is summed if so
TakeNumber ==
    /\ d3pc = "parsed"
    /\ d3part = "One"
    /\ d3i < Len(numbers(d3objects))
    /\ LET num == numbers(d3objects)[d3i + 1]
           adjacent == adjacent_symbols(d3objects, num)
       IN  /\ d3adjacent' = adjacent
           /\ d3sum' = IF adjacent # <<>> THEN d3sum + num.num ELSE d3sum
    /\ d3i' = d3i + 1
    /\ UNCHANGED <<d3lines, d3part, d3y, d3x, d3state, d3parsed, d3objects, d3result, d3pc>>
    /\ OtherDaysUnchanged(3)

\* part one: the numbers are used up
Day3FinishOne ==
    /\ d3pc = "parsed"
    /\ d3part = "One"
    /\ d3i = Len(numbers(d3objects))
    /\ d3result' = d3sum
    /\ d3pc' = "done"
    /\ UNCHANGED <<d3lines, d3part, d3y, d3x, d3state, d3parsed, d3objects, d3i,
                   d3adjacent, d3sum>>
    /\ OtherDaysUnchanged(3)

\* the products of the '*' symbols in S that have exactly two numbers next
\* to them, summed
RECURSIVE GearSum(_, _)
GearSum(objects, S) ==
    IF S = {} THEN 0
    ELSE LET sym == CHOOSE sym \in S : TRUE
             nums == SelectSeq(numbers(objects),
                               LAMBDA num : sym \in Range(adjacent_symbols(objects, num)))
         IN  (IF Len(nums) = 2 THEN nums[1].num * nums[2].num ELSE 0)
             + GearSum(objects, S \ {sym})

\* part two: the numbers are gathered by their '*' symbols, the pairs multiplied
Day3FinishTwo ==
    /\ d3pc = "parsed"
    /\ d3part = "Two"
    /\ d3result' = GearSum(d3objects, {sym \in Range(symbols(d3objects)) : sym.symbol = "*"})
    /\ d3pc' = "done"
    /\ UNCHANGED <<d3lines, d3part, d3y, d3x, d3state, d3parsed, d3objects, d3i,
                   d3adjacent, d3sum>>
    /\ OtherDaysUnchanged(3)

Day3Next ==
    \/ ScanChar
    \/ EndLine
    \/ EndParse
    \/ TakeNumber
    \/ Day3FinishOne
    \/ Day3FinishTwo

Day3Spec == Day3Init /\ [][Day3Next]_vars

---------------------------------------------------------------------------
(* Day 3: what the parser yields                                           *)

\* the character at column x of the line l is a digit
DigitAt(l, x) == x >= 0 /\ x < Len(l) /\ IsDigit(l[x + 1])

RECURSIVE Ten(_)
Ten(n) == IF n = 0 THEN 1 ELSE 10 * Ten(n - 1)

\* the decimal value of the w digits of l from column x on, by place value
RECURSIVE PlaceValue(_, _, _)
PlaceValue(l, x, w) ==
    IF w = 0 THEN 0 ELSE ToDigit(l[x + 1]) * Ten(w - 1) + PlaceValue(l, x + 1, w - 1)

\* the maximal runs of digits of the line l: <<first column, length>>
Runs(l) ==
    { r \in (0..Len(l)) \X (1..Len(l)) :
        /\ r[1] + r[2] <= Len(l)
        /\ \A k \in r[1]..(r[1] + r[2] - 1) : DigitAt(l, k)
        /\ ~DigitAt(l, r[1] - 1)
        /\ ~DigitAt(l, r[1] + r[2]) }

\* the objects the schematic should hold
ExpectedNumbers(lines) ==
    UNION { { NumberObject(r[1], y, r[2], PlaceValue(lines[y + 1], r[1], r[2])) :
                r \in Runs(lines[y + 1]) } : y \in 0..(Len(lines) - 1) }

ExpectedSymbols(lines) ==
    UNION { { SymbolObject(x, y, lines[y + 1][x + 1]) :
                x \in { k \in 0..(Len(lines[y + 1]) - 1) :
                          ~DigitAt(lines[y + 1], k) /\ lines[y + 1][k + 1] # "." } } :
            y \in 0..(Len(lines) - 1) }

\* the column whose character completes the object: the one after a
\* number, its own for a symbol
CompletedAt(o) == IF o.kind = "Number" THEN o.x + o.width ELSE o.x

\* a is emitted before b
EmittedBefore(a, b) ==
    \/ a.y < b.y
    \/ /\ a.y = b.y
       /\ \/ CompletedAt(a) < CompletedAt(b)
          \/ CompletedAt(a) = CompletedAt(b) /\ a.kind = "Number" /\ b.kind = "Symbol"

\* C22: once the schematic is parsed its objects are, each exactly once, the
\* maximal runs of digits of every line as a Number (x the column of the
\* first digit, width the length of the run, num its decimal value, a run
\* that ends with the line included) and every character that is neither a
\* digit nor '.' as a Symbol at its column and row; they stand in row order
\* and within a row in the order they are completed; the schematic of
\* test_schematic_parse yields the four objects the test expects.
C22_ParserYieldsRunsAndSymbols ==
    d3pc \in {"parsed", "done"} =>
        /\ Range(d3objects) = ExpectedNumbers(d3lines) \cup ExpectedSymbols(d3lines)
        /\ Len(d3objects)
             = Cardinality(ExpectedNumbers(d3lines) \cup ExpectedSymbols(d3lines))
        /\ \A i, j \in 1..Len(d3objects) :
             i < j => EmittedBefore(d3objects[i], d3objects[j])
        /\ d3lines = EXAMPLE_PARSE =>
             d3objects = << NumberObject(0, 0, 3, 467), NumberObject(5, 0, 3, 114),
                            SymbolObject(3, 1, "*"), NumberObject(9, 1, 1, 1) >>

\* the schematic of test_schematic_parse is parsed: its last number ends
\* with the line
C22_Witness ==
    /\ d3pc = "parsed"
    /\ d3lines = EXAMPLE_PARSE
    /\ Len(d3objects) = 4
    /\ d3objects[4] = NumberObject(9, 1, 1, 1)
    /\ d3objects[3].kind = "Symbol"

---------------------------------------------------------------------------
(* Day 3: the symbols around a number                                      *)

\* the cells the number covers
Cells(num) == { <<k, num.y>> : k \in num.x..(num.x + num.width - 1) }

\* the symbol touches a cell of the number, sideways, upright or diagonally
Touches(sym, num) ==
    \E cell \in Cells(num) : Abs(sym.x - cell[1]) <= 1 /\ Abs(sym.y - cell[2]) <= 1

\* the symbol is in the border the numbers x, y and width give
InBorder(sym, num) ==
    /\ Abs(sym.y - num.y) <= 1
    /\ num.x - 1 <= sym.x
    /\ sym.x <= num.x + num.width

RECURSIVE SumOfNums(_)
SumOfNums(S) ==
    IF S = {} THEN 0
    ELSE LET n == CHOOSE n \in S : TRUE IN n.num + SumOfNums(S \ {n})

\* the numbers of the lines with a symbol next to them
PartNumbers(lines) ==
    { n \in ExpectedNumbers(lines) : \E sym \in ExpectedSymbols(lines) : Touches(sym, n) }

\* C23: adjacent_symbols(num) returns exactly the symbols (sx, sy) with
\* |sy - num.y| <= 1 and num.x - 1 <= sx <= num.x + num.width, which are
\* the symbols in the one-cell border around the number, diagonals included,
\* in parse order and each once, and no symbol farther away; part one sums
\* every number with at least one such symbol (4361 for the example); the
\* schematic of schematic_adjacent_symbols yields the three symbols the
\* test expects.
C23_AdjacentSymbolsAreTheBorder ==
    /\ d3part = "One" /\ d3i > 0 =>
         LET num == numbers(d3objects)[d3i]
         IN  /\ Range(d3adjacent)
                  = { sym \in Range(symbols(d3objects)) : InBorder(sym, num) }
             /\ \A sym \in Range(symbols(d3objects)) :
                  InBorder(sym, num) <=> Touches(sym, num)
             /\ \A i, j \in 1..Len(d3adjacent) :
                  i < j => EmittedBefore(d3adjacent[i], d3adjacent[j])
             /\ d3lines = EXAMPLE_ADJACENT =>
                  d3adjacent = << SymbolObject(0, 0, "*"), SymbolObject(4, 1, "+"),
                                  SymbolObject(4, 2, "-") >>
    /\ d3part = "One" /\ d3pc = "done" =>
         /\ d3result = SumOfNums(PartNumbers(d3lines))
         /\ d3lines = EXAMPLE_SCHEMATIC => d3result = 4361

\* the number of schematic_adjacent_symbols has been examined: three of the
\* six symbols are next to it, and the number has been summed
C23_Witness ==
    /\ d3part = "One"
    /\ d3lines = EXAMPLE_ADJACENT
    /\ d3i = 1
    /\ Len(symbols(d3objects)) = 6
    /\ Len(d3adjacent) = 3
    /\ d3pc = "done"
    /\ d3result = 467

---------------------------------------------------------------------------
(* Day 8: a start without an entry                                         *)

\* a walk is under way or over whose start has no entry in the network,
\* with instructions to follow
StartUnknown ==
    /\ pc \in {"walk", "walked", "panic", "done"}
    /\ start # None
    /\ start \notin DOMAIN network
    /\ Len(instructions) > 0

\* C24: when the start id has no entry in the network (for PuzzlePart::One a
\* network without an AAA line) and there are instructions, the walk ends
\* with the unknown-node panic at its first instruction: it is at its start
\* with no step counted until then, its only move is to the panic, and it
\* never returns a step count.
C24_UnknownStartPanicsAtOnce ==
    /\ [](StartUnknown =>
            /\ pc \in {"walk", "panic"}
            /\ steps = 0
            /\ cur = start
            /\ pos = 1
            /\ result = 0)
    /\ [][(StartUnknown /\ pc = "walk") =>
            /\ pc' = "panic"
            /\ steps' = 0
            /\ cur' = cur]_vars
    /\ [][(StartUnknown /\ pc = "panic") => UNCHANGED vars]_vars

\* part one has walked into the panic from AAA, which the network lacks
C24_Witness ==
    /\ part = "One"
    /\ pc = "panic"
    /\ start = START
    /\ START \notin DOMAIN network
    /\ network # <<>>
    /\ Len(instructions) > 0
    /\ steps = 0

====
